---------------------------- MODULE Spec2Model ----------------------------
(***************************************************************************)
(* A model of whatsapp_analyzer/core/parser.py.                            *)
(*                                                                         *)
(* Text is modelled at character level: a Python str is a sequence of      *)
(* one-character strings; the few characters that cannot be written        *)
(* directly are named tokens ("LF", "CR", "TAB", "LRM", "RLM", "BOM").     *)
(* Python's None is the value None below, which no text equals.           *)
(* parse_chat is a state machine over pc: one action per step of its body, *)
(* every raise inside its try block going through the except handler of    *)
(* lines 384-386.                                                          *)
(***************************************************************************)
EXTENDS Integers, Sequences, FiniteSets, TLC

VARIABLES
    cli,              \* cli.main: its arguments, what it printed, its exit code
    fs,               \* the file system: the paths that exist (line 302)
    suspended,        \* the frames of the invocations that are not running
    content_type,     \* type of parse_chat's first argument: "bytes" or "str"
    file_content,     \* parse_chat's first argument (text, as characters)
    platform_arg,     \* parse_chat's second argument, as passed by the caller
    pc,               \* position in parse_chat
    lines,            \* parser.py:307
    platform,         \* the local `platform` after line 311
    idx,              \* number of lines the for loop of line 323 has consumed
    parsed_messages,  \* parser.py:316
    message_buffer,   \* parser.py:317
    current,          \* current_date, current_time, current_author (line 318)
    df,               \* the frame of lines 355-379 (a sequence of rows)
    outcome           \* what reaches the caller: nothing yet, a frame, an error

vars == <<cli, fs, suspended, content_type, file_content, platform_arg, pc, lines, platform, idx,
          parsed_messages, message_buffer, current, df, outcome>>

---------------------------------------------------------------------------
(* Characters and text                                                     *)

None == <<"<None>">>

Digit == {"0", "1", "2", "3", "4", "5", "6", "7", "8", "9"}

\* str.isspace / the regex class \s, over the characters the model uses
Whitespace ==
    {" ", "TAB", "LF", "CR", "NBSP", "NNBSP", "THINSP", "HAIRSP", "ENSP",
     "EMSP", "EM3SP", "EM4SP", "EM6SP", "FIGSP", "PUNCSP"}

\* the characters at which str.splitlines breaks a line
LineBreak == {"LF", "CR"}

DigitVal(c) ==
    CASE c = "0" -> 0 [] c = "1" -> 1 [] c = "2" -> 2 [] c = "3" -> 3
      [] c = "4" -> 4 [] c = "5" -> 5 [] c = "6" -> 6 [] c = "7" -> 7
      [] c = "8" -> 8 [] c = "9" -> 9

\* int(s) of a text of decimal digits
RECURSIVE IntOf(_)
IntOf(s) ==
    IF s = <<>> THEN 0
    ELSE 10 * IntOf(SubSeq(s, 1, Len(s) - 1)) + DigitVal(s[Len(s)])

\* s[from:] with a 1-based first index
Drop(s, from) == SubSeq(s, from, Len(s))

\* whether sub occurs in s at 1-based index i
OccursAt(s, sub, i) ==
    /\ i >= 1
    /\ i + Len(sub) - 1 <= Len(s)
    /\ \A j \in 1..Len(sub) : s[i + j - 1] = sub[j]

\* str.find, 1-based; 0 when sub does not occur
Find(s, sub) ==
    IF \E i \in 1..Len(s) : OccursAt(s, sub, i)
    THEN CHOOSE i \in 1..Len(s) :
            /\ OccursAt(s, sub, i)
            /\ \A k \in 1..(i - 1) : ~OccursAt(s, sub, k)
    ELSE 0

\* `sub in s`
Contains(s, sub) == Find(s, sub) # 0

\* s.split(sep, 1): one part when sep does not occur, else two
SplitAt(s, i, n) ==
    IF i = 0 THEN <<s>> ELSE <<SubSeq(s, 1, i - 1), Drop(s, i + n)>>

Split1(s, sep) == SplitAt(s, Find(s, sep), Len(sep))

\* s.lstrip(chars), s.rstrip(chars), s.strip(chars) for a set of characters
RECURSIVE LStrip(_, _)
LStrip(s, chars) ==
    IF s # <<>> /\ s[1] \in chars THEN LStrip(Tail(s), chars) ELSE s

RECURSIVE RStrip(_, _)
RStrip(s, chars) ==
    IF s # <<>> /\ s[Len(s)] \in chars
    THEN RStrip(SubSeq(s, 1, Len(s) - 1), chars)
    ELSE s

Strip(s, chars) == RStrip(LStrip(s, chars), chars)

\* s.replace(c, "") for one character c
Remove(s, c) == SelectSeq(s, LAMBDA x : x # c)

\* sep.join(parts)
RECURSIVE Join(_, _)
Join(parts, sep) ==
    IF parts = <<>> THEN <<>>
    ELSE IF Len(parts) = 1 THEN parts[1]
    ELSE parts[1] \o sep \o Join(Tail(parts), sep)

\* str.lower over the letters the model uses
LowerChar(c) ==
    CASE c = "A" -> "a" [] c = "B" -> "b" [] c = "M" -> "m" [] c = "O" -> "o"
      [] c = "P" -> "p" [] c = "D" -> "d" [] c = "E" -> "e" [] c = "I" -> "i"
      [] c = "T" -> "t" [] OTHER -> c

Lower(s) == [i \in 1..Len(s) |-> LowerChar(s[i])]

\* str.upper over the letters of the meridiem
UpperChar(c) ==
    CASE c = "a" -> "A" [] c = "p" -> "P" [] c = "m" -> "M" [] OTHER -> c

Upper(s) == [i \in 1..Len(s) |-> UpperChar(s[i])]

\* str(x) as an f-string formats it
Str(x) == IF x = None THEN <<"N", "o", "n", "e">> ELSE x

\* str.splitlines: the lines of a text, without their line breaks; CR LF is
\* one break, and a final break opens no further line.
\* LineEnds: the positions at which a line break ends
LineEnds(s) ==
    {i \in 1..Len(s) :
        /\ s[i] \in LineBreak
        /\ ~(s[i] = "CR" /\ i < Len(s) /\ s[i + 1] = "LF")}

\* the text of the line whose break ends at e, after the earlier breaks
LineBefore(s, ends, e) ==
    LET start == IF \E x \in ends : x < e
                 THEN 1 + CHOOSE x \in ends : x < e /\ \A y \in ends : y < e => y <= x
                 ELSE 1
        stop  == IF s[e] = "LF" /\ e > 1 /\ s[e - 1] = "CR" THEN e - 2 ELSE e - 1
    IN  SubSeq(s, start, stop)

\* the n-th smallest element of a set of numbers
Nth(S, n) == CHOOSE x \in S : Cardinality({y \in S : y <= x}) = n

BrokenLines(s, ends) ==
    [n \in 1..Cardinality(ends) |-> LineBefore(s, ends, Nth(ends, n))]

\* the text after the last break, a line of its own when it is not empty
LastLine(s, ends) ==
    IF ends = {} THEN (IF s = <<>> THEN <<>> ELSE <<s>>)
    ELSE IF \E e \in ends : e = Len(s) THEN <<>>
    ELSE <<Drop(s, 1 + CHOOSE x \in ends : \A y \in ends : y <= x)>>

SplitLinesAt(s, ends) == BrokenLines(s, ends) \o LastLine(s, ends)

SplitLines(s) == SplitLinesAt(s, LineEnds(s))

---------------------------------------------------------------------------
(* Regular expressions: a pattern element maps the set of positions       *)
(* (characters consumed so far) the match can be at to the set it can be  *)
(* at afterwards; re.match succeeds when the last set is not empty.       *)

AllIn(s, p, k, class) == \A j \in 1..k : s[p + j] \in class

\* class{lo,hi}
MRepeat(s, P, class, lo, hi) ==
    UNION {{p + k : k \in {n \in lo..hi : p + n <= Len(s) /\ AllIn(s, p, n, class)}}
           : p \in P}

\* a literal text
MLit(s, P, lit) == {p + Len(lit) : p \in {q \in P : OccursAt(s, lit, q + 1)}}

\* class*
MStar(s, P, class) == MRepeat(s, P, class, 0, Len(s))

\* class+
MPlus(s, P, class) == MRepeat(s, P, class, 1, Len(s))

\* (?:a|b|...)? for a set of literal texts
MOptLits(s, P, lits) == P \cup UNION {MLit(s, P, l) : l \in lits}


---------------------------------------------------------------------------
(* Exceptions: a kind and a message; a message is the sequence of the     *)
(* fragments an f-string puts together, so that a wrapped exception's     *)
(* message ends with the message of the exception it wraps.               *)

Exc(kind, msg) == [kind |-> kind, msg |-> msg]

---------------------------------------------------------------------------
(* The format matchers and extractors                                     *)

\* _SP without its last two characters, U+2007 and U+2008
IosSpaceToSixPerEm ==
    {" ", "NBSP", "NNBSP", "THINSP", "HAIRSP", "ENSP", "EMSP", "EM3SP",
     "EM4SP", "EM6SP"}

\* _SP: U+0020, U+00A0, U+202F, U+2009, U+200A, U+2002..U+2006, U+2007, U+2008
IosSpace ==
    {" ", "NBSP", "NNBSP", "THINSP", "HAIRSP", "ENSP", "EMSP", "EM3SP",
     "EM4SP", "EM6SP", "FIGSP", "PUNCSP"}

Meridiem == {<<"A", "M">>, <<"P", "M">>, <<"a", "m">>, <<"p", "m">>}

\* ANDROID_PATTERN.match(line): the positions the match can end at
AndroidMatchEnds(line) ==
    LET p1 == MLit(line, MRepeat(line, {0}, Digit, 1, 2), <<"/">>)
        p2 == MLit(line, MRepeat(line, p1, Digit, 1, 2), <<"/">>)
        p3 == MLit(line, MRepeat(line, p2, Digit, 2, 4), <<",", " ">>)
        p4 == MLit(line, MRepeat(line, p3, Digit, 1, 2), <<":">>)
        p5 == MStar(line, MRepeat(line, p4, Digit, 2, 2), Whitespace)
        p6 == MOptLits(line, p5, Meridiem)
    IN  MLit(line, p6, <<" ", "-">>)

\* the parts of IOS_PATTERN, each from a set of positions
IosDate(line, P) ==
    LET p1 == MRepeat(line, MRepeat(line, P, Digit, 1, 2), {"/", "-"}, 1, 1)
        p2 == MRepeat(line, MRepeat(line, p1, Digit, 1, 2), {"/", "-"}, 1, 1)
    IN  MRepeat(line, p2, Digit, 2, 4)

IosSep(line, P) == MPlus(line, P \cup MLit(line, P, <<",">>), IosSpace)

IosHourMinute(line, P) ==
    MRepeat(line, MLit(line, MRepeat(line, P, Digit, 1, 2), <<":">>), Digit, 2, 2)

\* (?::\d{2})? from the positions hm
IosOptSeconds(line, hm) == hm \cup MRepeat(line, MLit(line, hm, <<":">>), Digit, 2, 2)

IosTime(line, P) == IosOptSeconds(line, IosHourMinute(line, P))

\* (?:_SP*(AM|PM|am|pm))?
IosOptMeridiem(line, P) ==
    P \cup UNION {MLit(line, MStar(line, P, IosSpace), l) : l \in Meridiem}

IosTail(line, P) == MLit(line, IosOptMeridiem(line, P), <<"]">>)

\* IOS_PATTERN.match(line): the positions the match can end at
IosMatchEnds(line) ==
    IosTail(line, IosTime(line, IosSep(line, IosDate(line, MLit(line, {0}, <<"[">>)))))

\* The groups of IOS_PATTERN.match(line), for a line that matches: every part
\* of the pattern is followed by a character no longer part can contain, so
\* the match is unique.
IosSpans(line) ==
    UNION {UNION {UNION {{<<d, t, u, e>> : e \in IosTail(line, {u})}
                         : u \in IosTime(line, {t})}
                  : t \in IosSep(line, {d})}
           : d \in IosDate(line, {1})}

\* the groups of the span m = <<date end, time start, time end, match end>>
IosGroupsOf(line, m) ==
    [date |-> SubSeq(line, 2, m[1]),
     time |-> SubSeq(line, m[2] + 1, m[3]),
     ampm |-> IF m[4] - m[3] > 1 THEN SubSeq(line, m[4] - 2, m[4] - 1) ELSE None,
     end  |-> m[4]]

IosGroups(line) == IosGroupsOf(line, CHOOSE m \in IosSpans(line) : TRUE)

_is_android_format(line) == AndroidMatchEnds(line) # {}

_is_ios_format(line) == IosMatchEnds(line) # {}

Parsed(date, time, author, message) ==
    [raised |-> FALSE, date |-> date, time |-> time, author |-> author,
     message |-> message]

Raised(e) == [raised |-> TRUE, exc |-> e]

\* the except clause of lines 135-136
AndroidLineError(inner) ==
    Raised(Exc("ChatParseError", <<"Failed to parse Android line: ">> \o inner))

\* lines 129-134
AndroidAuthored(dt, am) ==
    IF Len(am) # 2
    THEN AndroidLineError(<<"not enough values to unpack">>)
    ELSE Parsed(dt[1], dt[2], am[1], am[2])

\* lines 127-134
AndroidFields(dt, message_part) ==
    IF Len(dt) # 2
    THEN AndroidLineError(<<"not enough values to unpack">>)
    ELSE IF Contains(message_part, <<":">>)
    THEN AndroidAuthored(dt, Split1(message_part, <<":", " ">>))
    ELSE Parsed(dt[1], dt[2], None, message_part)

\* lines 123-134
AndroidParts(parts) ==
    IF Len(parts) # 2
    THEN AndroidLineError(<<"Invalid Android format">>)
    ELSE AndroidFields(Split1(parts[1], <<",", " ">>), parts[2])

_parse_android_line(line) == AndroidParts(Split1(line, <<" ", "-", " ">>))

\* the except clause of lines 185-186
IosLineError(inner) ==
    Raised(Exc("ChatParseError", <<"Failed to parse iOS line: ">> \o inner))

\* the text "System message from "
SystemMessageFrom ==
    <<"S", "y", "s", "t", "e", "m", " ", "m", "e", "s", "s", "a", "g", "e", " ",
      "f", "r", "o", "m", " ">>

\* lines 160-161
IosTimeText(g) ==
    IF g.ampm # None THEN g.time \o <<" ">> \o Upper(g.ampm) ELSE g.time

\* lines 172-177 without the branch of lines 175-177
IosAuthoredAlways(date, time, author, message) ==
    Parsed(date, time, author, message)

\* lines 172-177
IosAuthored(date, time, author, message) ==
    IF message = <<>>
    THEN Parsed(date, time, None, SystemMessageFrom \o author)
    ELSE Parsed(date, time, author, message)

\* lines 169-184
IosParts(date, time, message_part, parts) ==
    IF Len(parts) = 2
    THEN IosAuthored(date, time, Strip(parts[1], Whitespace),
                     Strip(parts[2], Whitespace))
    ELSE Parsed(date, time, None, Strip(message_part, Whitespace))

IosMessagePart(date, time, message_part) ==
    IosParts(date, time, message_part, Split1(message_part, <<":">>))

\* lines 157-184
IosMatched(line, g) ==
    IosMessagePart(g.date, IosTimeText(g), LStrip(Drop(line, g.end + 1), Whitespace))

_parse_ios_line(line) ==
    IF IosMatchEnds(line) = {}
    THEN IosLineError(<<"Invalid iOS format">>)
    ELSE IosMatched(line, IosGroups(line))

\* lines 92-94 in the other order: stripped first, the marks removed after
CleanLineStripFirst(line) ==
    Remove(Remove(Strip(line, {"BOM", "LF", "CR"}), "LRM"), "RLM")

_clean_line(line) ==
    Strip(Remove(Remove(line, "LRM"), "RLM"), {"BOM", "LF", "CR"})

---------------------------------------------------------------------------
(* datetime.strptime.  Every template of _parse_timestamp has the shape   *)
(* date, space, time: three numeric fields with a separator between them, *)
(* one or more whitespace characters, then hour, minute and optionally    *)
(* seconds with colons between them and optionally whitespace and AM/PM.  *)
(* A parse is the tuple of the positions its fields end at.  No field can *)
(* contain the character that follows it in the template, so the input   *)
(* has at most one parse that reaches its end, the one _strptime's        *)
(* regular expression finds; the longer alternatives of a directive come  *)
(* first in that expression, so it finds that parse when there is one.    *)

\* Tpl("m", "/", "Y", "I:M p") is "%m/%d/%Y %I:%M %p",
\* Tpl("d", "-", "y", "H:M:S") is "%d-%m-%y %H:%M:%S"
Tpl(first, sep, year, kind) ==
    [first |-> first, sep |-> sep, year |-> year, kind |-> kind]

\* the value of the k digits after position p, -1 when they are not k digits
DigitsValue(s, p, k) ==
    IF p + k <= Len(s) /\ AllIn(s, p, k, Digit)
    THEN IntOf(SubSeq(s, p + 1, p + k))
    ELSE -1

\* whether k digits of value v are a text the directive's pattern admits:
\* m 1[0-2]|0[1-9]|[1-9], d 3[01]|[12]\d|0[1-9]|[1-9], H 2[0-3]|[0-1]\d|\d,
\* I 1[0-2]|0[1-9]|[1-9], M [0-5]\d|\d, S 6[0-1]|[0-5]\d|\d, Y \d\d\d\d, y \d\d
DirectiveAdmits(dir, k, v) ==
    CASE dir = "m" -> IF k = 2 THEN v \in 1..12 ELSE k = 1 /\ v \in 1..9
      [] dir = "d" -> IF k = 2 THEN v \in 1..31 ELSE k = 1 /\ v \in 1..9
      [] dir = "I" -> IF k = 2 THEN v \in 1..12 ELSE k = 1 /\ v \in 1..9
      [] dir = "H" -> IF k = 2 THEN v \in 0..23 ELSE k = 1 /\ v >= 0
      [] dir = "M" -> IF k = 2 THEN v \in 0..59 ELSE k = 1 /\ v >= 0
      [] dir = "S" -> IF k = 2 THEN v \in 0..61 ELSE k = 1 /\ v >= 0
      [] dir = "Y" -> k = 4 /\ v >= 0
      [] dir = "y" -> k = 2 /\ v >= 0

\* the positions a directive can end at, read from the positions P; the last
\* alternative of %d is a space and a digit 1-9
MDirective(s, P, dir) ==
    UNION {{p + k : k \in {n \in {1, 2, 4} : DirectiveAdmits(dir, n, DigitsValue(s, p, n))}}
           : p \in P}
    \cup (IF dir = "d"
          THEN {p + 2 : p \in {q \in P : /\ q + 2 <= Len(s)
                                         /\ s[q + 1] = " "
                                         /\ s[q + 2] \in Digit \ {"0"}}}
          ELSE {})

\* the date: <<a, b, c>>, the ends of its three fields
DateSpans(s, t) ==
    UNION {UNION {{<<a, b, c>> :
                      c \in MDirective(s, MLit(s, {b}, <<t.sep>>), t.year)}
                  : b \in MDirective(s, MLit(s, {a}, <<t.sep>>),
                                     IF t.first = "m" THEN "d" ELSE "m")}
           : a \in MDirective(s, {0}, t.first)}

HasSeconds(kind) == kind \in {"H:M:S", "I:M:S p"}

HasMeridiem(kind) == kind \in {"I:M p", "I:M:S p"}

HourDirective(kind) == IF HasMeridiem(kind) THEN "I" ELSE "H"

\* the end of the seconds from the end w of the minutes (w itself without)
SecondsEnds(s, w, kind) ==
    IF HasSeconds(kind) THEN MDirective(s, MLit(s, {w}, <<":">>), "S") ELSE {w}

\* the end of the parse from the end x of the clock time: \s+ and am or pm,
\* in either case, when the template has %p
MeridiemEnds(s, x, kind) ==
    IF HasMeridiem(kind)
    THEN {y + 2 : y \in {z \in MPlus(s, {x}, Whitespace) :
                           /\ z + 2 <= Len(s)
                           /\ Lower(SubSeq(s, z + 1, z + 2)) \in {<<"a", "m">>, <<"p", "m">>}}}
    ELSE {x}

\* the time after the date's end c: <<u, v, w, x, y>>, the start of the hour
\* and the ends of hour, minute, seconds and of the whole
TimeSpans(s, c, kind) ==
    UNION {UNION {UNION {UNION {{<<u, v, w, x, y>> : y \in MeridiemEnds(s, x, kind)}
                                : x \in SecondsEnds(s, w, kind)}
                         : w \in MDirective(s, MLit(s, {v}, <<":">>), "M")}
                  : v \in MDirective(s, {u}, HourDirective(kind))}
           : u \in MPlus(s, {c}, Whitespace)}

\* the parses of s by the template t that reach the end of s
Parses(s, t) ==
    UNION {{<<d, tm>> : tm \in {x \in TimeSpans(s, d[3], t.kind) : x[5] = Len(s)}}
           : d \in DateSpans(s, t)}

\* the number a field's text stands for
FieldValue(txt) == IntOf(LStrip(txt, {" "}))

\* %y: 69-99 are 1969-1999, 0-68 are 2000-2068
YearOf(dir, v) == IF dir = "Y" THEN v ELSE IF v <= 68 THEN 2000 + v ELSE 1900 + v

IsLeap(y) == (y % 4 = 0 /\ y % 100 # 0) \/ y % 400 = 0

DaysInMonth(y, m) ==
    IF m = 2 THEN (IF IsLeap(y) THEN 29 ELSE 28)
    ELSE IF m \in {4, 6, 9, 11} THEN 30 ELSE 31

\* the hour of a 12-hour clock reading
Hour12(I, p) ==
    IF p = "a" THEN (IF I = 12 THEN 0 ELSE I)
    ELSE (IF I = 12 THEN 12 ELSE I + 12)

\* datetime(year, month, day, hour, minute, second), None for its ValueError
Datetime(Y, m, d, H, M, S) ==
    IF Y < 1 \/ d > DaysInMonth(Y, m) \/ S > 59 THEN None
    ELSE <<Y, m, d, H, M, S>>

\* the datetime of the parse <<d, tm>> of s by t
ParsedDatetime(s, t, d, tm) ==
    Datetime(YearOf(t.year, FieldValue(SubSeq(s, d[2] + 2, d[3]))),
             FieldValue(IF t.first = "m" THEN SubSeq(s, 1, d[1])
                        ELSE SubSeq(s, d[1] + 2, d[2])),
             FieldValue(IF t.first = "m" THEN SubSeq(s, d[1] + 2, d[2])
                        ELSE SubSeq(s, 1, d[1])),
             IF HasMeridiem(t.kind)
             THEN Hour12(FieldValue(SubSeq(s, tm[1] + 1, tm[2])),
                         LowerChar(s[tm[5] - 1]))
             ELSE FieldValue(SubSeq(s, tm[1] + 1, tm[2])),
             FieldValue(SubSeq(s, tm[2] + 2, tm[3])),
             IF HasSeconds(t.kind) THEN FieldValue(SubSeq(s, tm[3] + 2, tm[4])) ELSE 0)

FirstOf(s, t, parses) ==
    IF parses = {} THEN None
    ELSE ParsedDatetime(s, t, (CHOOSE q \in parses : TRUE)[1],
                        (CHOOSE q \in parses : TRUE)[2])

\* datetime.strptime(s, t): a datetime <<year, month, day, hour, minute,
\* second>>, or None for the ValueError
Strptime(s, t) == FirstOf(s, t, Parses(s, t))

\* the four date shapes of one row pair of the iOS list
IosRow(first, kind) ==
    <<Tpl(first, "-", "Y", kind), Tpl(first, "-", "y", kind),
      Tpl(first, "/", "Y", kind), Tpl(first, "/", "y", kind)>>

\* lines 204-211 with the day-first formats written before the month-first
AndroidFormatsDayFirst ==
    <<Tpl("d", "/", "Y", "I:M p"), Tpl("d", "/", "y", "I:M p"),
      Tpl("d", "/", "Y", "H:M"),   Tpl("d", "/", "y", "H:M"),
      Tpl("m", "/", "Y", "I:M p"), Tpl("m", "/", "y", "I:M p"),
      Tpl("m", "/", "Y", "H:M"),   Tpl("m", "/", "y", "H:M")>>

AndroidFormats ==
    <<Tpl("m", "/", "Y", "I:M p"), Tpl("m", "/", "y", "I:M p"),
      Tpl("m", "/", "Y", "H:M"),   Tpl("m", "/", "y", "H:M"),
      Tpl("d", "/", "Y", "I:M p"), Tpl("d", "/", "y", "I:M p"),
      Tpl("d", "/", "Y", "H:M"),   Tpl("d", "/", "y", "H:M")>>

IosFormats ==
    IosRow("d", "H:M:S") \o IosRow("d", "H:M") \o
    IosRow("d", "I:M:S p") \o IosRow("d", "I:M p") \o
    IosRow("m", "H:M:S") \o IosRow("m", "H:M") \o
    IosRow("m", "I:M:S p") \o IosRow("m", "I:M p")

\* lines 234-241 without the except clause of lines 237-238: the ValueError
\* of the last format leaves the function when no format parses
FirstNotNoneOrValueError(results) ==
    IF \A i \in DOMAIN results : results[i] = <<"<None>">> THEN <<"<ValueError>">>
    ELSE results[CHOOSE i \in DOMAIN results :
                    /\ results[i] # <<"<None>">>
                    /\ \A j \in 1..(i - 1) : results[j] = <<"<None>">>]

\* lines 234-241 with the loop left after its first format
FirstFormatOnly(results) == results[1]

\* lines 234-241: the result of the first format that parses, None when
\* none does; results[i] is what strptime gives for the i-th format
FirstNotNone(results) ==
    IF \A i \in DOMAIN results : results[i] = None THEN None
    ELSE results[CHOOSE i \in DOMAIN results :
                    /\ results[i] # None
                    /\ \A j \in 1..(i - 1) : results[j] = None]

FirstParse(s, formats) ==
    FirstNotNone([i \in 1..Len(formats) |-> Strptime(s, formats[i])])

_parse_timestamp(date, time, plat) ==
    FirstParse(Str(date) \o <<" ">> \o Str(time),
               IF plat = "android" THEN AndroidFormats ELSE IosFormats)

---------------------------------------------------------------------------
(* detect_platform                                                         *)

\* `lines[:100]` of line 260
SampleLimit == 100

Min(a, b) == IF a <= b THEN a ELSE b

\* line 260 with the limit counted in non-empty lines: the first
\* SampleLimit lines that are not empty once stripped and cleaned
SampledNonEmpty(ls) ==
    SubSeq(SelectSeq([i \in 1..Len(ls) |-> _clean_line(Strip(ls[i], Whitespace))],
                     LAMBDA l : l # <<>>),
           1,
           Min(SampleLimit,
               Len(SelectSeq([i \in 1..Len(ls) |-> _clean_line(Strip(ls[i], Whitespace))],
                             LAMBDA l : l # <<>>))))

\* the sampled lines as the loop body sees them: stripped, then cleaned
Sampled(ls) ==
    [i \in 1..Min(SampleLimit, Len(ls)) |-> _clean_line(Strip(ls[i], Whitespace))]

\* the counts of lines 265-268 over the sampled lines s
android_count(s) ==
    Cardinality({i \in DOMAIN s : s[i] # <<>> /\ _is_android_format(s[i])})

ios_count(s) ==
    Cardinality({i \in DOMAIN s :
        s[i] # <<>> /\ ~_is_android_format(s[i]) /\ _is_ios_format(s[i])})

Returned(v) == [raised |-> FALSE, value |-> v]

\* lines 270-279 with a tie given to android
MajorityOrAndroid(a, i) ==
    IF a >= i THEN Returned("android") ELSE Returned("ios")

\* lines 270-279
Majority(a, i) ==
    IF a > i THEN Returned("android")
    ELSE IF i > a THEN Returned("ios")
    ELSE Raised(Exc("PlatformDetectionError",
                    <<"Could not determine platform. Android: ", ToString(a),
                      ", iOS: ", ToString(i)>>))

Counted(s) == Majority(android_count(s), ios_count(s))

detect_platform(ls) == Counted(Sampled(ls))

---------------------------------------------------------------------------
(* parse_chat                                                              *)

\* bytes or str to lines; the input is text every encoding of the list
\* decodes alike
_decode_file_content(content) == SplitLines(content)

\* lines 384-386 with the exception raised again as it came
Reraised(e) == e

\* lines 384-386 with the message of the original left out
HandlerWithoutReason(e) == Exc("ChatParseError", <<"Chat parsing failed">>)

\* lines 384-386: every exception raised in the try block reaches the caller
\* as a ChatParseError whose message ends with the message of the original
ExceptHandler(e) == Exc("ChatParseError", <<"Chat parsing failed: ">> \o e.msg)

\* the two function choices of lines 320-321
is_format_func(plat, line) ==
    IF plat = "android" THEN _is_android_format(line) ELSE _is_ios_format(line)

parse_line_func(plat, line) ==
    IF plat = "android" THEN _parse_android_line(line) ELSE _parse_ios_line(line)

\* lines 331-334 with the fragments joined without the space between them
FlushedUnspaced(cur, buffer) ==
    [Date |-> cur.date, Time |-> cur.time, Author |-> cur.author,
     Message |-> Strip(Join(buffer, <<>>), Whitespace)]

\* the record lines 331-334 and 346-349 append
Flushed(cur, buffer) ==
    [Date |-> cur.date, Time |-> cur.time, Author |-> cur.author,
     Message |-> Strip(Join(buffer, <<" ">>), Whitespace)]

NoCurrent == [date |-> None, time |-> None, author |-> None]

\* lines 375-379
MediaOmitted ==
    <<"<", "M", "e", "d", "i", "a", " ", "o", "m", "i", "t", "t", "e", "d", ">">>

Omitted == <<"o", "m", "i", "t", "t", "e", "d">>

\* lines 375-379 with the third test made without case=False
IsMediaCaseSensitive(message) ==
    \/ message = MediaOmitted
    \/ Contains(message, MediaOmitted)
    \/ Contains(message, Omitted)

is_media(message) ==
    \/ message = MediaOmitted
    \/ Contains(message, MediaOmitted)
    \/ Contains(Lower(message), Omitted)

\* lines 358-361 with a row whose date and time do not parse given the
\* epoch for its ts
WithTsDefaulted(raw, plat) ==
    [i \in 1..Len(raw) |->
        [Date |-> raw[i].Date, Time |-> raw[i].Time, Author |-> raw[i].Author,
         Message |-> raw[i].Message,
         ts |-> IF _parse_timestamp(raw[i].Date, raw[i].Time, plat) = None
                THEN <<1970, 1, 1, 0, 0, 0>>
                ELSE _parse_timestamp(raw[i].Date, raw[i].Time, plat)]]

\* lines 358-361 with a row that has no date given the epoch for its ts
WithTsOfDateless(raw, plat) ==
    [i \in 1..Len(raw) |->
        [Date |-> raw[i].Date, Time |-> raw[i].Time, Author |-> raw[i].Author,
         Message |-> raw[i].Message,
         ts |-> IF raw[i].Date = None
                THEN <<1970, 1, 1, 0, 0, 0>>
                ELSE _parse_timestamp(raw[i].Date, raw[i].Time, plat)]]

\* lines 358-361: the frame with its ts column
WithTs(raw, plat) ==
    [i \in 1..Len(raw) |->
        [Date |-> raw[i].Date, Time |-> raw[i].Time, Author |-> raw[i].Author,
         Message |-> raw[i].Message,
         ts |-> _parse_timestamp(raw[i].Date, raw[i].Time, plat)]]

\* line 364 with the kept rows given twice
DropNaTwice(rows) ==
    SelectSeq(rows, LAMBDA row : row.ts # None)
        \o SelectSeq(rows, LAMBDA row : row.ts # None)

\* line 364 with the kept rows turned newest line first
DropNaReversed(rows) ==
    [i \in 1..Len(SelectSeq(rows, LAMBDA row : row.ts # None)) |->
        SelectSeq(rows, LAMBDA row : row.ts # None)
            [Len(SelectSeq(rows, LAMBDA row : row.ts # None)) + 1 - i]]

\* line 364: dropna(subset=["ts"]), the rows kept in their order
DropNa(rows) == SelectSeq(rows, LAMBDA row : row.ts # None)

\* lines 370-379: the derived columns (dow, the day's name, is left out)
Derived(rows) ==
    [i \in 1..Len(rows) |->
        [Date |-> rows[i].Date, Time |-> rows[i].Time, Author |-> rows[i].Author,
         Message |-> rows[i].Message, ts |-> rows[i].ts,
         date |-> SubSeq(rows[i].ts, 1, 3), hour |-> rows[i].ts[4],
         is_media |-> is_media(rows[i].Message)]]

---------------------------------------------------------------------------
(* The inputs: transcripts of at most MaxLines lines drawn from a corpus  *)
(* of lines, each line ended by a line feed, and the platform hints.      *)

MaxLines == 3

\* '1/2/23, 9:05 - A: hi': a Format A header, 2 Jan 2023 09:05 (month first)
HdrA ==
    <<"1", "/", "2", "/", "2", "3", ",", " ", "9", ":", "0", "5", " ", "-", " ", "A", ":", " ", "h", "i">>

\* '1/1/23, 9:05 PM - B: yo': a Format A header of an earlier day, 1 Jan 2023 21:05
HdrB ==
    <<"1", "/", "1", "/", "2", "3", ",", " ", "9", ":", "0", "5", " ", "P", "M", " ", "-", " ", "B", ":", " ", "y", "o">>

\* '13/1/23, 9:05 - go': a Format A header without author, day first: 13 Jan 2023
HdrSys ==
    <<"1", "3", "/", "1", "/", "2", "3", ",", " ", "9", ":", "0", "5", " ", "-", " ", "g", "o">>

\* '13/13/23, 9:05 - A: x': a Format A header whose date no template resolves
HdrBadDate ==
    <<"1", "3", "/", "1", "3", "/", "2", "3", ",", " ", "9", ":", "0", "5", " ", "-", " ", "A", ":", " ", "x">>

\* '1/1/23, 9:05 -x': matches ANDROID_PATTERN, but has no " - " to split at
HdrNoSep ==
    <<"1", "/", "1", "/", "2", "3", ",", " ", "9", ":", "0", "5", " ", "-", "x">>

\* '<LRM>[1/2/23, 9:05:07 PM] A: hi': a Format B header behind a left-to-right mark
HdrIos ==
    <<"LRM", "[", "1", "/", "2", "/", "2", "3", ",", " ", "9", ":", "0", "5", ":", "0", "7", " ", "P", "M", "]", " ", "A", ":", " ", "h", "i">>

\* 'more': a line that is no header
Text ==
    <<"m", "o", "r", "e">>

\* '': an empty line
Blank ==
    <<>>

Corpus == {HdrA, HdrB, HdrSys, HdrBadDate, HdrNoSep, HdrIos, Text, Blank}

Transcripts == UNION {[1..n -> Corpus] : n \in 0..MaxLines}

\* the text of a transcript
RECURSIVE Content(_)
Content(ls) ==
    IF ls = <<>> THEN <<>> ELSE ls[1] \o <<"LF">> \o Content(Tail(ls))

\* "desktop" stands for every value that is none of the three recognized
Platforms == {"auto", "android", "ios", "desktop"}

---------------------------------------------------------------------------
(* parse_chat as a state machine                                           *)

Pending == [kind |-> "pending"]

\* parse_chat called by a caller other than cli.main
NoCli == [phase |-> "none"]

\* a file system in which no path exists
NoFiles == {}

\* Path(p).exists(), line 302
Exists(files, p) == \E e \in files : e.path = p

Entry(files, p) == CHOOSE e \in files : e.path = p

\* isinstance(file_content, (str, Path)) and Path(file_content).exists()
IsPathAnyType(type, content, files) == Exists(files, content)

IsPath(type, content, files) == type = "str" /\ Exists(files, content)

\* the state at the call of parse_chat(content, hint) with a first argument
\* of one of `types`, in one of the file systems `files`, no other
\* invocation being in progress
CalledIn(contents, hints, types, files) ==
    /\ fs \in files
    /\ suspended = <<>>
    /\ cli = NoCli
    /\ content_type \in types
    /\ file_content \in contents
    /\ platform_arg \in hints
    /\ pc = "call"
    /\ lines = <<>>
    /\ platform = "unset"
    /\ idx = 0
    /\ parsed_messages = <<>>
    /\ message_buffer = <<>>
    /\ current = NoCurrent
    /\ df = <<>>
    /\ outcome = Pending

\* the state at the call of parse_chat(content, hint) with bytes
Called(contents, hints) == CalledIn(contents, hints, {"bytes"}, {NoFiles})

Init == Called({Content(ls) : ls \in Transcripts}, Platforms)

\* an exception raised inside the try block: lines 384-386
Raise(e) ==
    /\ pc' = "done"
    /\ outcome' = [kind |-> "raised", exc |-> ExceptHandler(e)]

\* lines 302-307: a str that names an existing path is replaced by the bytes
\* of that file (open() of a directory raises IsADirectoryError)
Decode ==
    /\ pc = "call"
    /\ IF IsPath(content_type, file_content, fs)
       THEN IF Entry(fs, file_content).dir
            THEN Raise(Exc("IsADirectoryError", <<"Is a directory">>))
                 /\ UNCHANGED lines
            ELSE /\ lines' = _decode_file_content(Entry(fs, file_content).data)
                 /\ pc' = "decoded"
                 /\ UNCHANGED outcome
       ELSE /\ lines' = _decode_file_content(file_content)
            /\ pc' = "decoded"
            /\ UNCHANGED outcome
    /\ UNCHANGED <<cli, fs, content_type, suspended, file_content, platform_arg,
                   platform, idx, parsed_messages, message_buffer, current, df>>

Detected(r) ==
    IF r.raised
    THEN Raise(r.exc) /\ UNCHANGED platform
    ELSE platform' = r.value /\ pc' = "loop" /\ UNCHANGED outcome

\* lines 310-311, platform == "auto"
Detect ==
    /\ pc = "decoded"
    /\ platform_arg = "auto"
    /\ Detected(detect_platform(lines))
    /\ UNCHANGED <<cli, fs, content_type, suspended, file_content, platform_arg, lines, idx, parsed_messages,
                   message_buffer, current, df>>

\* lines 310-321 with any other platform argument: it is used as it is
UseHint ==
    /\ pc = "decoded"
    /\ platform_arg # "auto"
    /\ platform' = platform_arg
    /\ pc' = "loop"
    /\ UNCHANGED <<cli, fs, content_type, suspended, file_content, platform_arg, lines, idx, parsed_messages,
                   message_buffer, current, df, outcome>>

\* the line the loop of line 323 is at, cleaned (line 324)
cleaned_line == _clean_line(lines[idx + 1])

InLoop == pc = "loop" /\ idx < Len(lines)

\* lines 325-326: an empty line
LoopSkip ==
    /\ InLoop
    /\ cleaned_line = <<>>
    /\ idx' = idx + 1
    /\ UNCHANGED <<cli, fs, content_type, suspended, file_content, platform_arg, pc, lines, platform,
                   parsed_messages, message_buffer, current, df, outcome>>

\* lines 338-339 with r the extractor's result
NewHeader(r) ==
    IF r.raised
    THEN /\ Raise(r.exc)
         /\ message_buffer' = <<>>
         /\ UNCHANGED <<current, idx>>
    ELSE /\ current' = [date |-> r.date, time |-> r.time, author |-> r.author]
         /\ message_buffer' = <<r.message>>
         /\ idx' = idx + 1
         /\ UNCHANGED <<pc, outcome>>

\* lines 328-339: a header line
LoopHeader ==
    /\ InLoop
    /\ cleaned_line # <<>>
    /\ is_format_func(platform, cleaned_line)
    /\ parsed_messages' =
          IF message_buffer # <<>>
          THEN Append(parsed_messages, Flushed(current, message_buffer))
          ELSE parsed_messages
    /\ NewHeader(parse_line_func(platform, cleaned_line))
    /\ UNCHANGED <<cli, fs, content_type, suspended, file_content, platform_arg, lines, platform, df>>

\* lines 340-342: any other line
LoopContinuation ==
    /\ InLoop
    /\ cleaned_line # <<>>
    /\ ~is_format_func(platform, cleaned_line)
    /\ message_buffer' = Append(message_buffer, cleaned_line)
    /\ idx' = idx + 1
    /\ UNCHANGED <<cli, fs, content_type, suspended, file_content, platform_arg, pc, lines, platform,
                   parsed_messages, current, df, outcome>>

\* lines 344-352: the end of the loop
FlushFinal ==
    /\ pc = "loop"
    /\ idx = Len(lines)
    /\ parsed_messages' =
          IF message_buffer # <<>>
          THEN Append(parsed_messages, Flushed(current, message_buffer))
          ELSE parsed_messages
    /\ IF parsed_messages' = <<>>
       THEN Raise(Exc("ChatParseError", <<"No messages found in chat export">>))
       ELSE pc' = "frame" /\ UNCHANGED outcome
    /\ UNCHANGED <<cli, fs, content_type, suspended, file_content, platform_arg, lines, platform, idx,
                   message_buffer, current, df>>

\* lines 366-382 without the check of lines 366-367
FramedUnchecked(rows) ==
    /\ df' = Derived(rows)
    /\ pc' = "done"
    /\ outcome' = [kind |-> "returned", df |-> df']

\* lines 366-382 with rows the frame after dropna
Framed(rows) ==
    IF rows = <<>>
    THEN /\ Raise(Exc("ChatParseError", <<"No valid timestamps found after parsing">>))
         /\ df' = rows
    ELSE /\ df' = Derived(rows)
         /\ pc' = "done"
         /\ outcome' = [kind |-> "returned", df |-> df']

\* lines 354-382: the frame
BuildFrame ==
    /\ pc = "frame"
    /\ Framed(DropNa(WithTs(parsed_messages, platform)))
    /\ UNCHANGED <<cli, fs, content_type, suspended, file_content, platform_arg, lines, platform, idx,
                   parsed_messages, message_buffer, current>>

Next ==
    \/ Decode
    \/ Detect
    \/ UseHint
    \/ LoopSkip
    \/ LoopHeader
    \/ LoopContinuation
    \/ FlushFinal
    \/ BuildFrame

Spec == Init /\ [][Next]_vars

---------------------------------------------------------------------------
(* parse_chat over longer transcripts of fewer kinds of line: a header   *)
(* followed by several continuation lines and another header              *)

MaxFold == 4

FoldCorpus == {HdrA, HdrSys, HdrIos, Text, Blank}

FoldTranscripts == UNION {[1..n -> FoldCorpus] : n \in 0..MaxFold}

InitFold ==
    Called({Content(ls) : ls \in FoldTranscripts}, {"auto", "android", "ios"})

SpecFold == InitFold /\ [][Next]_vars

---------------------------------------------------------------------------
(* detect_platform called on its own, on lists of lines that reach past   *)
(* the sampled lines: a run of empty lines followed by a short transcript  *)

MaxTail == 4

\* '  1/2/23, 9:05 - A: hi': a Format A header behind two spaces
HdrIndented == <<" ", " ">> \o HdrA

DetectCorpus == {HdrA, HdrIos, HdrIndented, Text, Blank}

DetectTails == UNION {[1..n -> DetectCorpus] : n \in 0..MaxTail}

BlankLines(n) == [i \in 1..n |-> Blank]

\* how many empty lines come first: none, and one less than, as many as and
\* one more than the lines detect_platform looks at
Pads == {0, SampleLimit - 1, SampleLimit, SampleLimit + 1}

InitDetect ==
    /\ lines \in {BlankLines(n) \o tail : n \in Pads, tail \in DetectTails}
    /\ pc = "detect"
    /\ file_content = <<>>
    /\ fs = NoFiles
    /\ suspended = <<>>
    /\ cli = NoCli
    /\ content_type = "bytes"
    /\ platform_arg = "auto"
    /\ platform = "unset"
    /\ idx = 0
    /\ parsed_messages = <<>>
    /\ message_buffer = <<>>
    /\ current = NoCurrent
    /\ df = <<>>
    /\ outcome = Pending

\* what a call leaves: the value returned, or the exception as it was raised
Outcome(r) ==
    IF r.raised THEN [kind |-> "raised", exc |-> r.exc]
    ELSE [kind |-> "returned", value |-> r.value]

\* lines 244-279: a call of detect_platform(lines)
DetectCall ==
    /\ pc = "detect"
    /\ outcome' = Outcome(detect_platform(lines))
    /\ pc' = "done"
    /\ UNCHANGED <<cli, fs, content_type, suspended, file_content, platform_arg, lines, platform, idx,
                   parsed_messages, message_buffer, current, df>>

NextDetect == DetectCall

SpecDetect == InitDetect /\ [][NextDetect]_vars

---------------------------------------------------------------------------
(* What the claims speak of, read off the input rather than off the       *)
(* variables the loop keeps                                                *)

Done == pc = "done"

ReturnedFrame == outcome.kind = "returned"

RaisedKind(kind) == outcome.kind = "raised" /\ outcome.exc.kind = kind

\* whether the text msg ends with the text reason
EndsWith(msg, reason) ==
    /\ Len(msg) >= Len(reason)
    /\ SubSeq(msg, Len(msg) - Len(reason) + 1, Len(msg)) = reason

RaisedWith(kind, reason) == RaisedKind(kind) /\ EndsWith(outcome.exc.msg, reason)

\* the order of datetimes
TsLess(a, b) == \E i \in 1..6 : a[i] < b[i] /\ \A j \in 1..(i - 1) : a[j] = b[j]

TsLeq(a, b) == a = b \/ TsLess(a, b)

\* the decoded lines, each cleaned
CleanLines == [i \in 1..Len(lines) |-> _clean_line(lines[i])]

\* the header lines of the active format, by their place in the transcript
HeaderIdx ==
    {i \in 1..Len(lines) :
        CleanLines[i] # <<>> /\ is_format_func(platform, CleanLines[i])}

\* what extraction gives for the header line at i
HeaderAt(i) == parse_line_func(platform, CleanLines[i])

\* the header lines at which extraction fails
ExtractionFails == {i \in HeaderIdx : HeaderAt(i).raised}

\* the loop of parse_chat ran to its end
Assembled == platform # "unset" /\ ExtractionFails = {}

\* whether date and time parse under some template of the platform
TemplatesOf(plat) == IF plat = "android" THEN AndroidFormats ELSE IosFormats

MatchesSomeTemplate(date, time, plat) ==
    \E k \in 1..Len(TemplatesOf(plat)) :
        Strptime(Str(date) \o <<" ">> \o Str(time), TemplatesOf(plat)[k]) # None

\* the header lines whose own date and time resolve
ResolvableIdx ==
    {i \in HeaderIdx : MatchesSomeTemplate(HeaderAt(i).date, HeaderAt(i).time, platform)}

\* the k-th smallest member of a set of line numbers
NthOf(S, k) == CHOOSE i \in S : Cardinality({j \in S : j <= i}) = k

\* the columns parse_chat assembles, of a row of the frame
RawOf(row) ==
    [Date |-> row.Date, Time |-> row.Time, Author |-> row.Author,
     Message |-> row.Message]

---------------------------------------------------------------------------
(* C1                                                                      *)

\* C1 as the specification states it: whenever parse_chat returns, the rows
\* are in ascending order of ts (each ts is at most the next one), also for
\* a transcript whose lines are not in chronological order.
C1_SortedByTs ==
    (Done /\ ReturnedFrame) =>
        \A n \in 1..(Len(outcome.df) - 1) :
            TsLeq(outcome.df[n].ts, outcome.df[n + 1].ts)

\* C1 as the code has it: whenever parse_chat returns, the rows are in the
\* order of their header lines in the transcript, unsorted: the n-th row
\* carries the date, the time and the timestamp of the n-th header line
\* whose date and time resolve.  So the rows ascend by ts exactly when
\* those header lines do, and rows of equal ts keep their transcript order.
C1_TranscriptOrder ==
    (Done /\ ReturnedFrame) =>
        /\ Len(outcome.df) = Cardinality(ResolvableIdx)
        /\ \A n \in 1..Len(outcome.df) :
              /\ outcome.df[n].Date = HeaderAt(NthOf(ResolvableIdx, n)).date
              /\ outcome.df[n].Time = HeaderAt(NthOf(ResolvableIdx, n)).time
              /\ outcome.df[n].ts =
                    _parse_timestamp(HeaderAt(NthOf(ResolvableIdx, n)).date,
                                     HeaderAt(NthOf(ResolvableIdx, n)).time,
                                     platform)

\* a returned frame whose second row is earlier than its first
C1_OutOfOrderReturned ==
    /\ Done
    /\ ReturnedFrame
    /\ Len(outcome.df) >= 2
    /\ TsLess(outcome.df[2].ts, outcome.df[1].ts)

---------------------------------------------------------------------------
(* C2                                                                      *)

\* C2: parse_chat never returns an empty frame: it ends with a frame of at
\* least one row or with an error.  A transcript with non-empty lines of
\* which none is a header of the active format ends in ChatParseError, and
\* so does a transcript none of whose records resolves to a timestamp.
C2_NeverEmpty ==
    Done =>
        /\ \/ ReturnedFrame /\ Len(outcome.df) >= 1
           \/ RaisedKind("ChatParseError")
        /\ ( /\ platform # "unset"
             /\ \E i \in 1..Len(lines) : CleanLines[i] # <<>>
             /\ HeaderIdx = {} ) => RaisedKind("ChatParseError")
        /\ (Assembled /\ ResolvableIdx = {}) => RaisedKind("ChatParseError")

\* a transcript with headers, all of them unresolvable, has ended in an error
C2_AllUnresolvableRaised ==
    /\ Done
    /\ Assembled
    /\ HeaderIdx # {}
    /\ ResolvableIdx = {}
    /\ RaisedKind("ChatParseError")

---------------------------------------------------------------------------
(* C3                                                                      *)

\* C3: every row of a returned frame has a ts that is not None, and the
\* rows are exactly the assembled records whose own date and time parse
\* under some template of the active platform, each record decided on its
\* own; when extraction succeeded on every header and at least one record
\* resolves, the unresolvable ones are dropped and parse_chat returns.
C3_KeptIffResolvable ==
    Done =>
        /\ ReturnedFrame =>
              /\ \A n \in 1..Len(outcome.df) : outcome.df[n].ts # None
              /\ [n \in 1..Len(outcome.df) |-> RawOf(outcome.df[n])] =
                    SelectSeq(parsed_messages,
                        LAMBDA r : MatchesSomeTemplate(r.Date, r.Time, platform))
        /\ (Assembled /\ ResolvableIdx # {}) => ReturnedFrame

\* a returned frame that lost an unresolvable record and kept a day-first
\* 24-hour record beside a month-first 12-hour one
C3_MixedKeptOneDropped ==
    /\ Done
    /\ ReturnedFrame
    /\ Len(outcome.df) < Len(parsed_messages)
    /\ \E n \in 1..Len(outcome.df) : outcome.df[n].ts = <<2023, 1, 13, 9, 5, 0>>
    /\ \E n \in 1..Len(outcome.df) : outcome.df[n].ts = <<2023, 1, 1, 21, 5, 0>>

---------------------------------------------------------------------------
(* C4                                                                      *)

\* C4: a platform hint that is none of auto, android and ios makes
\* parse_chat raise ValueError, whatever the content.
C4_InvalidHintValueError ==
    (Done /\ platform_arg \notin {"auto", "android", "ios"}) =>
        RaisedKind("ValueError")

---------------------------------------------------------------------------
(* C5                                                                      *)

\* C5: with the hint auto and a non-empty input whose sampled lines give no
\* strict majority to either format, parse_chat raises
\* PlatformDetectionError, a kind of its own beside ChatParseError.
C5_NoMajorityDetectionError ==
    ( /\ Done
      /\ platform_arg = "auto"
      /\ file_content # <<>>
      /\ detect_platform(lines).raised ) =>
        RaisedKind("PlatformDetectionError")

---------------------------------------------------------------------------
(* C6                                                                      *)

\* C6: an empty input (zero bytes, the empty string) makes parse_chat raise
\* ChatParseError under each of the hints auto, android and ios.
C6_EmptyInputRaises ==
    (Done /\ file_content = <<>> /\ platform_arg \in {"auto", "android", "ios"}) =>
        RaisedKind("ChatParseError")

\* the empty input has been parsed under the hint auto and has raised
C6_EmptyAutoRaised ==
    /\ Done
    /\ file_content = <<>>
    /\ platform_arg = "auto"
    /\ outcome.kind = "raised"

---------------------------------------------------------------------------
(* C7                                                                      *)

\* C7: when parse_chat fails for an empty input, for zero assembled
\* records, for zero surviving records or for a header line on which
\* extraction fails, it raises ChatParseError and the message ends with the
\* reason of the failure; none of these ends in a returned frame.
C7_FailuresWrapped ==
    Done =>
        /\ (file_content = <<>> /\ platform_arg = "auto") =>
              RaisedWith("ChatParseError",
                         <<"Could not determine platform. Android: ", "0",
                           ", iOS: ", "0">>)
        /\ (platform # "unset" /\ \A i \in 1..Len(lines) : CleanLines[i] = <<>>) =>
              RaisedWith("ChatParseError", <<"No messages found in chat export">>)
        /\ (platform # "unset" /\ ExtractionFails # {}) =>
              RaisedWith("ChatParseError",
                         HeaderAt(NthOf(ExtractionFails, 1)).exc.msg)
        /\ ( /\ Assembled
             /\ \E i \in 1..Len(lines) : CleanLines[i] # <<>>
             /\ ResolvableIdx = {} ) =>
              RaisedWith("ChatParseError",
                         <<"No valid timestamps found after parsing">>)

\* a header line on which extraction fails has ended the parse in an error
C7_ExtractionFailureRaised ==
    /\ Done
    /\ platform # "unset"
    /\ ExtractionFails # {}
    /\ outcome.kind = "raised"

---------------------------------------------------------------------------
(* C8                                                                      *)

\* a line as detect_platform looks at it
Normalized(line) == _clean_line(Strip(line, Whitespace))

\* the lines of the set S of line numbers that match Format A, Format B
AndroidMatches(S) == Cardinality({i \in S : _is_android_format(Normalized(lines[i]))})

IosMatches(S) == Cardinality({i \in S : _is_ios_format(Normalized(lines[i]))})

\* the call of detect_platform ended as the counts a and b say it should
Decided(a, b) ==
    /\ a > b => outcome = [kind |-> "returned", value |-> "android"]
    /\ b > a => outcome = [kind |-> "returned", value |-> "ios"]
    /\ a = b => RaisedKind("PlatformDetectionError")

\* C8: with A and B the counts detect_platform made of its sampled lines
\* matching Format A and Format B, it returns android exactly when A > B,
\* ios exactly when B > A, and raises PlatformDetectionError when A = B, a
\* tie of non-zero counts included.
C8_StrictMajority ==
    Done => Decided(android_count(Sampled(lines)), ios_count(Sampled(lines)))

\* a sample of three Format A lines and one Format B line gave android
C8_ThreeToOne ==
    /\ Done
    /\ Len(lines) = 4
    /\ AndroidMatches(1..4) = 3
    /\ IosMatches(1..4) = 1
    /\ outcome = [kind |-> "returned", value |-> "android"]

---------------------------------------------------------------------------
(* C9                                                                      *)

\* the numbers of the lines that are not empty once normalized
NonEmptyIdx == {i \in 1..Len(lines) : Normalized(lines[i]) # <<>>}

\* of these, the first SampleLimit
FirstNonEmptyIdx ==
    {i \in NonEmptyIdx : Cardinality({j \in NonEmptyIdx : j <= i}) <= SampleLimit}

\* C9 as the specification states it: detect_platform decides by the first
\* 100 non-empty normalized lines, so header lines behind any number of
\* leading empty lines are still counted.
C9_FirstNonEmptyLines ==
    Done => Decided(AndroidMatches(FirstNonEmptyIdx), IosMatches(FirstNonEmptyIdx))

\* C9 as the code has it: detect_platform decides by the first 100 lines
\* of the input, empty or not.  Empty lines use up the 100, so a list whose
\* first 100 lines are empty raises PlatformDetectionError whatever follows,
\* and no line after the 100th changes the result.
C9_FirstLines ==
    Done =>
        /\ Decided(AndroidMatches(1..Min(SampleLimit, Len(lines))),
                   IosMatches(1..Min(SampleLimit, Len(lines))))
        /\ (\A i \in 1..Min(SampleLimit, Len(lines)) : Normalized(lines[i]) = <<>>) =>
              RaisedKind("PlatformDetectionError")

\* a Format A header as line 101 behind 100 empty lines went uncounted
C9_HeaderBehindBlanks ==
    /\ Done
    /\ Len(lines) > SampleLimit
    /\ \A i \in 1..SampleLimit : lines[i] = Blank
    /\ _is_android_format(Normalized(lines[SampleLimit + 1]))
    /\ RaisedKind("PlatformDetectionError")

---------------------------------------------------------------------------
(* C10                                                                     *)

\* the header line that follows the header line at i, or the end of input
NextHeader(i) ==
    IF \E j \in HeaderIdx : j > i
    THEN CHOOSE j \in HeaderIdx : j > i /\ \A k \in HeaderIdx : k > i => j <= k
    ELSE Len(lines) + 1

\* the non-empty lines strictly between the header line at i and the next
ContinuationsOf(i) ==
    SelectSeq(SubSeq(CleanLines, i + 1, NextHeader(i) - 1), LAMBDA l : l # <<>>)

\* the record the header line at i stands for: its own date, time and
\* author, and its message fragment followed by its continuation lines,
\* joined by single spaces and trimmed
RecordOf(i) ==
    [Date |-> HeaderAt(i).date, Time |-> HeaderAt(i).time,
     Author |-> HeaderAt(i).author,
     Message |-> Strip(Join(<<HeaderAt(i).message>> \o ContinuationsOf(i), <<" ">>),
                       Whitespace)]

\* the records of the first n header lines, in their order
RecordsOfFirst(n) == [k \in 1..n |-> RecordOf(NthOf(HeaderIdx, k))]

\* the assembled records that stand for header lines
OfHeaders(records) == SelectSeq(records, LAMBDA r : r.Date # None)

\* C10: every header line yields exactly one assembled record, with the
\* date, time and author of that header line and with the message made of
\* its fragment and the continuation lines up to the next header line,
\* joined by single spaces and trimmed.  The record of a header line is
\* appended when the next header line is read, that of the last one at the
\* end of input.
C10_OneRecordPerHeader ==
    /\ pc = "loop" =>
          /\ Len(OfHeaders(parsed_messages)) + (IF current.date # None THEN 1 ELSE 0)
                = Cardinality({i \in HeaderIdx : i <= idx})
          /\ OfHeaders(parsed_messages) =
                RecordsOfFirst(Len(OfHeaders(parsed_messages)))
    /\ pc = "frame" =>
          OfHeaders(parsed_messages) = RecordsOfFirst(Cardinality(HeaderIdx))

\* a header line, two continuation lines and another header line have
\* given two records, the first with its three fragments
C10_TwoContinuations ==
    /\ pc = "frame"
    /\ lines = <<HdrA, Text, Text, HdrSys>>
    /\ Len(parsed_messages) = 2
    /\ parsed_messages[1].Message =
          <<"h", "i", " ", "m", "o", "r", "e", " ", "m", "o", "r", "e">>
    /\ parsed_messages[1].Author = <<"A">>
    /\ parsed_messages[2].Author = None

---------------------------------------------------------------------------
(* C11                                                                     *)

\* C11: under the hint android, a frame parse_chat returns has at most as
\* many rows as the transcript has Format A header lines, whatever other
\* lines stand before, between or after them, and exactly as many when
\* the date and time of every header line resolve; with every header line
\* extracted and resolved, parse_chat does return.
C11_AtMostOnePerHeader ==
    (Done /\ platform_arg = "android") =>
        /\ ReturnedFrame =>
              /\ Len(outcome.df) <= Cardinality(HeaderIdx)
              /\ ResolvableIdx = HeaderIdx =>
                    Len(outcome.df) = Cardinality(HeaderIdx)
        /\ (Assembled /\ HeaderIdx # {} /\ ResolvableIdx = HeaderIdx) =>
              ReturnedFrame

\* a text line, a header line and another text line gave one row
C11_TextAroundHeader ==
    /\ Done
    /\ platform_arg = "android"
    /\ lines = <<Text, HdrA, Text>>
    /\ ReturnedFrame
    /\ Len(outcome.df) = 1

---------------------------------------------------------------------------
(* C12: transcripts written from known triples                            *)

\* the decimal text of a natural number, and the same on two digits
DigitChar(n) == CHOOSE c \in Digit : DigitVal(c) = n

Dec(n) ==
    IF n < 10 THEN <<DigitChar(n)>>
    ELSE IF n < 100 THEN <<DigitChar(n \div 10), DigitChar(n % 10)>>
    ELSE <<DigitChar(n \div 1000), DigitChar((n \div 100) % 10),
           DigitChar((n \div 10) % 10), DigitChar(n % 10)>>

Pad2(n) == <<DigitChar((n \div 10) % 10), DigitChar(n % 10)>>

\* the text after the timestamp: "name: message", or the message alone
Body(triple) ==
    IF triple.author = None THEN triple.message
    ELSE triple.author \o <<":", " ">> \o triple.message

\* a Format A header line of a triple: month first, 24-hour, to the minute
RenderAndroid(triple) ==
    Dec(triple.ts[2]) \o <<"/">> \o Dec(triple.ts[3]) \o <<"/">> \o
    Pad2(triple.ts[1]) \o <<",", " ">> \o Dec(triple.ts[4]) \o <<":">> \o
    Pad2(triple.ts[5]) \o <<" ", "-", " ">> \o Body(triple)

\* a Format B header line of a triple: day first, 24-hour, with seconds
RenderIos(triple) ==
    <<"[">> \o Dec(triple.ts[3]) \o <<"/">> \o Dec(triple.ts[2]) \o <<"/">> \o
    Pad2(triple.ts[1]) \o <<",", " ">> \o Dec(triple.ts[4]) \o <<":">> \o
    Pad2(triple.ts[5]) \o <<":">> \o Pad2(triple.ts[6]) \o <<"]", " ">> \o
    Body(triple)

RenderLine(fmt, triple) ==
    IF fmt = "android" THEN RenderAndroid(triple) ELSE RenderIos(triple)

\* the transcript of a list of triples, one header line per triple
RenderAll(fmt, triples) == [k \in 1..Len(triples) |-> RenderLine(fmt, triples[k])]

MaxTriples == 2

\* the triples: an author or none, a message with and without a colon, a
\* timestamp (Format A lines have no seconds to carry)
TriplesOf(fmt) ==
    [author : {None, <<"A">>},
     message : {<<"h", "i">>, <<"a", ":", "b">>},
     ts : IF fmt = "android"
          THEN {<<2023, 1, 2, 9, 5, 0>>, <<2023, 1, 13, 21, 5, 0>>}
          ELSE {<<2023, 1, 2, 9, 5, 0>>, <<2023, 1, 13, 21, 5, 7>>}]

TripleLists(fmt) == UNION {[1..n -> TriplesOf(fmt)] : n \in 1..MaxTriples}

\* the lines of the transcripts: every header line of a triple, a line of
\* text and an empty line
RoundTripCorpus ==
    {RenderLine(fmt, tr) : fmt \in {"android"}, tr \in TriplesOf("android")}
    \cup {RenderLine(fmt, tr) : fmt \in {"ios"}, tr \in TriplesOf("ios")}
    \cup {Text, Blank}

RoundTripTranscripts == UNION {[1..n -> RoundTripCorpus] : n \in 0..MaxTriples}

InitRoundTrip ==
    Called({Content(ls) : ls \in RoundTripTranscripts}, {"auto", "android", "ios"})

SpecRoundTrip == InitRoundTrip /\ [][Next]_vars

\* the frame returned is the list of triples
Reproduces(triples) ==
    /\ ReturnedFrame
    /\ Len(outcome.df) = Len(triples)
    /\ \A k \in 1..Len(triples) :
          /\ outcome.df[k].Author = triples[k].author
          /\ outcome.df[k].Message = triples[k].message
          /\ outcome.df[k].ts = triples[k].ts

\* C12: when the content is the transcript written from a list of triples
\* (author or None, message, timestamp), one header line per triple, in
\* Format A or Format B, and the hint is that format or auto, parse_chat
\* returns one row per triple with the same author (None stays None), the
\* same message and the same timestamp to the second.
C12_RoundTrip ==
    Done =>
        \A fmt \in {"android", "ios"} : \A triples \in TripleLists(fmt) :
            ( /\ platform_arg \in {fmt, "auto"}
              /\ file_content = Content(RenderAll(fmt, triples)) ) =>
                Reproduces(triples)

---------------------------------------------------------------------------
(* _parse_timestamp called on its own                                     *)

\* the two numbers a date begins with range over 0..MaxField
MaxField == 13

\* 'a/b/y', 'a-b-y'
DateText(a, sep, b, year) == Dec(a) \o <<sep>> \o Dec(b) \o <<sep>> \o year

Dates ==
    {DateText(a, sep, b, year) :
        a \in 0..MaxField, b \in 0..MaxField, sep \in {"/", "-"},
        year \in {<<"2", "3">>, <<"2", "0", "2", "3">>}}
    \cup {<<"0", "1", "/", "0", "2", "/", "2", "0", "2", "3">>,
          <<"i", "n", "v", "a", "l", "i", "d">>, <<>>, None}

Times ==
    {<<"9", ":", "0", "5">>, <<"2", "1", ":", "0", "5">>,
     <<"9", ":", "0", "5", " ", "P", "M">>,
     <<"9", ":", "0", "5", ":", "0", "7">>,
     <<"9", ":", "0", "5", ":", "0", "7", " ", "P", "M">>,
     <<"1", "3", ":", "0", "5", " ", "P", "M">>,
     <<"t", "i", "m", "e">>}

InitTimestamp ==
    /\ current \in [date : Dates, time : Times, author : {None}]
    /\ platform_arg \in {"android", "ios", "desktop"}
    /\ pc = "timestamp"
    /\ file_content = <<>>
    /\ fs = NoFiles
    /\ suspended = <<>>
    /\ cli = NoCli
    /\ content_type = "bytes"
    /\ lines = <<>>
    /\ platform = "unset"
    /\ idx = 0
    /\ parsed_messages = <<>>
    /\ message_buffer = <<>>
    /\ df = <<>>
    /\ outcome = Pending

\* lines 189-241: a call of _parse_timestamp(date, time, platform)
TimestampCall ==
    /\ pc = "timestamp"
    /\ outcome' = [kind |-> "returned",
                   value |-> _parse_timestamp(current.date, current.time, platform_arg)]
    /\ pc' = "done"
    /\ UNCHANGED <<cli, fs, content_type, suspended, file_content, platform_arg, lines, platform, idx,
                   parsed_messages, message_buffer, current, df>>

NextTimestamp == TimestampCall

SpecTimestamp == InitTimestamp /\ [][NextTimestamp]_vars

---------------------------------------------------------------------------
(* C13                                                                     *)

\* the string the templates are tried on
DateTimeStr == Str(current.date) \o <<" ">> \o Str(current.time)

\* v is what the first template of the list T that matches s gives, None
\* when none matches
IsFirstMatch(s, T, v) ==
    IF \A k \in 1..Len(T) : Strptime(s, T[k]) = None
    THEN v = None
    ELSE \E k \in 1..Len(T) :
            /\ Strptime(s, T[k]) # None
            /\ v = Strptime(s, T[k])
            /\ \A j \in 1..(k - 1) : Strptime(s, T[j]) = None

\* every template of T that begins with the field first stands before
\* every template that begins with the other field
AllBefore(T, first) ==
    \A i, j \in 1..Len(T) : (T[i].first = first /\ T[j].first # first) => i < j

\* the date is one of the 'a/b/y', 'a-b-y' and a, b are its two numbers
IsDateOf(date, a, b) ==
    \E sep \in {"/", "-"}, year \in {<<"2", "3">>, <<"2", "0", "2", "3">>} :
        date = DateText(a, sep, b, year)

\* C13: _parse_timestamp returns what the first template that matches
\* date + " " + time gives, in the order of the platform's list.  In the
\* Format A list every month-first template stands before every day-first
\* one, in the Format B list it is the reverse: a date whose two numbers
\* can both be a month resolves month first for android and day first
\* for ios ("01/02/2023": 2 January, 1 February), and a date valid in one
\* order only resolves in that order.
C13_FirstTemplateInOrder ==
    /\ AllBefore(AndroidFormats, "m")
    /\ AllBefore(IosFormats, "d")
    /\ Done =>
          /\ IsFirstMatch(DateTimeStr, TemplatesOf(platform_arg), outcome.value)
          /\ outcome.value # None =>
                \A a, b \in 0..MaxField :
                    IsDateOf(current.date, a, b) =>
                        IF a <= 12 /\ b <= 12
                        THEN IF platform_arg = "android"
                             THEN outcome.value[2] = a /\ outcome.value[3] = b
                             ELSE outcome.value[3] = a /\ outcome.value[2] = b
                        ELSE IF a <= 12
                             THEN outcome.value[2] = a /\ outcome.value[3] = b
                             ELSE outcome.value[3] = a /\ outcome.value[2] = b
          /\ ( /\ current.date = <<"0", "1", "/", "0", "2", "/", "2", "0", "2", "3">>
               /\ current.time = <<"9", ":", "0", "5">> ) =>
                outcome.value = IF platform_arg = "android"
                                THEN <<2023, 1, 2, 9, 5, 0>>
                                ELSE <<2023, 2, 1, 9, 5, 0>>

\* "01/02/2023" has resolved to 2 January under android
C13_AmbiguousMonthFirst ==
    /\ Done
    /\ platform_arg = "android"
    /\ current.date = <<"0", "1", "/", "0", "2", "/", "2", "0", "2", "3">>
    /\ outcome.value = <<2023, 1, 2, 9, 5, 0>>

---------------------------------------------------------------------------
(* C14                                                                     *)

\* C14: a call of _parse_timestamp ends by returning, for every date,
\* time and platform value: a datetime, or None when no template of the
\* list matches; it is never left by an exception.
C14_NoneNotRaise ==
    Done =>
        /\ outcome.value = None \/ Len(outcome.value) = 6
        /\ (\A k \in 1..Len(TemplatesOf(platform_arg)) :
                Strptime(DateTimeStr, TemplatesOf(platform_arg)[k]) = None) =>
              outcome.value = None

\* the date "invalid" with the time "time" has given None
C14_InvalidGivesNone ==
    /\ Done
    /\ current.date = <<"i", "n", "v", "a", "l", "i", "d">>
    /\ current.time = <<"t", "i", "m", "e">>
    /\ outcome.value = None

---------------------------------------------------------------------------
(* parse_chat over transcripts with media placeholders                    *)

MaxMedia == 3

\* '1/2/23, 9:05 - A: <Media omitted>'
HdrMedia ==
    <<"1", "/", "2", "/", "2", "3", ",", " ", "9", ":", "0", "5", " ", "-", " ", "A", ":", " ", "<", "M", "e", "d", "i", "a", " ", "o", "m", "i", "t", "t", "e", "d", ">">>

\* '1/2/23, 9:05 - A: Photo OMITTED'
HdrShout ==
    <<"1", "/", "2", "/", "2", "3", ",", " ", "9", ":", "0", "5", " ", "-", " ", "A", ":", " ", "P", "h", "o", "t", "o", " ", "O", "M", "I", "T", "T", "E", "D">>

\* '1/2/23, 9:05 - A: omit it'
HdrNear ==
    <<"1", "/", "2", "/", "2", "3", ",", " ", "9", ":", "0", "5", " ", "-", " ", "A", ":", " ", "o", "m", "i", "t", " ", "i", "t">>

\* 'image omitted': a line that is no header
TextOmitted ==
    <<"i", "m", "a", "g", "e", " ", "o", "m", "i", "t", "t", "e", "d">>

MediaCorpus == {HdrA, HdrMedia, HdrShout, HdrNear, TextOmitted, Blank}

MediaTranscripts == UNION {[1..n -> MediaCorpus] : n \in 0..MaxMedia}

InitMedia == Called({Content(ls) : ls \in MediaTranscripts}, {"auto", "android"})

SpecMedia == InitMedia /\ [][Next]_vars

---------------------------------------------------------------------------
(* C15                                                                     *)

\* the letters of "omitted", each in its two cases
OmittedAnyCase ==
    <<{"o", "O"}, {"m", "M"}, {"i", "I"}, {"t", "T"}, {"t", "T"}, {"e", "E"},
      {"d", "D"}>>

\* whether the message contains "omitted" in any letter case
HasOmitted(message) ==
    \E i \in 1..Len(message) :
        /\ i + 6 <= Len(message)
        /\ \A j \in 1..7 : message[i + j - 1] \in OmittedAnyCase[j]

\* C15: in every row of a returned frame is_media is true if and only if
\* the message equals "<Media omitted>" or contains "omitted" in any letter
\* case; a message without it has is_media false.
C15_MediaFlag ==
    (Done /\ ReturnedFrame) =>
        \A n \in 1..Len(outcome.df) :
            outcome.df[n].is_media <=>
                (outcome.df[n].Message = MediaOmitted \/ HasOmitted(outcome.df[n].Message))

\* a frame with "Photo OMITTED" flagged, "<Media omitted>" flagged and
\* "omit it" not flagged
C15_FlaggedAndNot ==
    /\ Done
    /\ ReturnedFrame
    /\ lines = <<HdrShout, HdrMedia, HdrNear>>
    /\ outcome.df[1].is_media
    /\ outcome.df[2].is_media
    /\ ~outcome.df[3].is_media

---------------------------------------------------------------------------
(* _clean_line called on its own                                          *)

MaxClean == 4

\* the characters of the lines: the two directionality marks, the three
\* characters strip removes, a letter and a space
CleanAlphabet == {"LRM", "RLM", "BOM", "CR", "LF", "a", " "}

RawLines == UNION {[1..n -> CleanAlphabet] : n \in 0..MaxClean}

InitClean ==
    /\ lines \in {<<line>> : line \in RawLines}
    /\ pc = "clean"
    /\ file_content = <<>>
    /\ fs = NoFiles
    /\ suspended = <<>>
    /\ cli = NoCli
    /\ content_type = "bytes"
    /\ platform_arg = "auto"
    /\ platform = "unset"
    /\ idx = 0
    /\ parsed_messages = <<>>
    /\ message_buffer = <<>>
    /\ current = NoCurrent
    /\ df = <<>>
    /\ outcome = Pending

\* lines 81-95: a call of _clean_line(lines[0])
CleanCall ==
    /\ pc = "clean"
    /\ outcome' = [kind |-> "returned", value |-> _clean_line(lines[1])]
    /\ pc' = "done"
    /\ UNCHANGED <<cli, fs, content_type, suspended, file_content, platform_arg, lines, platform, idx,
                   parsed_messages, message_buffer, current, df>>

NextClean == CleanCall

SpecClean == InitClean /\ [][NextClean]_vars

---------------------------------------------------------------------------
(* C16                                                                     *)

\* C16: _clean_line is idempotent, cleaning its result gives the result
\* again; the result contains neither U+200E nor U+200F, and neither
\* begins nor ends with a byte-order mark, a carriage return or a newline.
C16_CleanIdempotent ==
    Done =>
        /\ _clean_line(outcome.value) = outcome.value
        /\ \A i \in 1..Len(outcome.value) : outcome.value[i] \notin {"LRM", "RLM"}
        /\ outcome.value # <<>> =>
              /\ outcome.value[1] \notin {"BOM", "CR", "LF"}
              /\ outcome.value[Len(outcome.value)] \notin {"BOM", "CR", "LF"}

\* a line with a mark before its byte-order mark and a line break at its
\* end has been cleaned to its letter
C16_MarkBeforeBom ==
    /\ Done
    /\ lines = <<<<"LRM", "BOM", "a", "LF">>>>
    /\ outcome.value = <<"a">>

---------------------------------------------------------------------------
(* _decode_file_content on bytes.  A bytes object is a sequence of byte   *)
(* values; a decoder gives [ok |-> TRUE, text |-> ...] or, for its        *)
(* UnicodeDecodeError, [ok |-> FALSE].                                     *)

\* the character of a code point, in the names the model gives characters
CharOf(cp) ==
    CASE cp = 10 -> "LF" [] cp = 13 -> "CR" [] cp = 9 -> "TAB" [] cp = 32 -> " "
      [] cp = 65 -> "A" [] cp = 65279 -> "BOM" [] cp = 8206 -> "LRM"
      [] cp = 8207 -> "RLM"
      [] OTHER -> "U+" \o ToString(cp)

Failed == [ok |-> FALSE]

Decoded(text) == [ok |-> TRUE, text |-> text]

\* the character c before what the rest decodes to
Before(c, rest) == IF rest.ok THEN Decoded(<<c>> \o rest.text) ELSE rest

\* bytes.decode("utf-8", errors) from index i on, over one- and two-byte
\* sequences (the alphabet of the model has no lead byte of a longer one):
\* a byte that begins no sequence fails the strict decode and is skipped
\* by the decode with errors="ignore"
RECURSIVE Utf8From(_, _, _)
Utf8From(bytes, i, strict) ==
    IF i > Len(bytes) THEN Decoded(<<>>)
    ELSE IF bytes[i] < 128
    THEN Before(CharOf(bytes[i]), Utf8From(bytes, i + 1, strict))
    ELSE IF /\ bytes[i] \in 194..223
            /\ i + 1 <= Len(bytes)
            /\ bytes[i + 1] \in 128..191
    THEN Before(CharOf((bytes[i] - 192) * 64 + (bytes[i + 1] - 128)),
                Utf8From(bytes, i + 2, strict))
    ELSE IF strict THEN Failed
    ELSE Utf8From(bytes, i + 1, strict)

Utf8(bytes) == Utf8From(bytes, 1, TRUE)

\* "utf-8-sig": utf-8 behind an optional EF BB BF
Utf8Sig(bytes) ==
    IF Len(bytes) >= 3 /\ SubSeq(bytes, 1, 3) = <<239, 187, 191>>
    THEN Utf8From(bytes, 4, TRUE)
    ELSE Utf8From(bytes, 1, TRUE)

\* the k-th 16-bit unit of an even number of bytes
Unit(bytes, k, order) ==
    IF order = "le" THEN bytes[2 * k - 1] + 256 * bytes[2 * k]
    ELSE 256 * bytes[2 * k - 1] + bytes[2 * k]

\* the units from the k-th on: a high surrogate needs a low one after it,
\* a low surrogate alone is an error
RECURSIVE Utf16From(_, _, _)
Utf16From(bytes, k, order) ==
    IF 2 * k > Len(bytes) THEN Decoded(<<>>)
    ELSE IF Unit(bytes, k, order) \in 55296..56319
    THEN IF 2 * (k + 1) <= Len(bytes) /\ Unit(bytes, k + 1, order) \in 56320..57343
         THEN Before(CharOf(65536 + (Unit(bytes, k, order) - 55296) * 1024
                                  + (Unit(bytes, k + 1, order) - 56320)),
                     Utf16From(bytes, k + 2, order))
         ELSE Failed
    ELSE IF Unit(bytes, k, order) \in 56320..57343 THEN Failed
    ELSE Before(CharOf(Unit(bytes, k, order)), Utf16From(bytes, k + 1, order))

\* "utf-16-le", "utf-16-be": an odd number of bytes is truncated data
Utf16Ordered(bytes, order) ==
    IF Len(bytes) % 2 = 1 THEN Failed ELSE Utf16From(bytes, 1, order)

\* "utf-16": the byte-order mark chooses the order and is dropped; without
\* one the order is the machine's, little-endian
Utf16(bytes) ==
    IF Len(bytes) >= 2 /\ SubSeq(bytes, 1, 2) = <<255, 254>>
    THEN Utf16Ordered(Drop(bytes, 3), "le")
    ELSE IF Len(bytes) >= 2 /\ SubSeq(bytes, 1, 2) = <<254, 255>>
    THEN Utf16Ordered(Drop(bytes, 3), "be")
    ELSE Utf16Ordered(bytes, "le")

\* line 61
encodings == <<"utf-8", "utf-8-sig", "utf-16", "utf-16-le", "utf-16-be">>

\* line 65: file_content.decode(encoding)
decode(bytes, encoding) ==
    CASE encoding = "utf-8" -> Utf8(bytes)
      [] encoding = "utf-8-sig" -> Utf8Sig(bytes)
      [] encoding = "utf-16" -> Utf16(bytes)
      [] encoding = "utf-16-le" -> Utf16Ordered(bytes, "le")
      [] encoding = "utf-16-be" -> Utf16Ordered(bytes, "be")

\* lines 63-70 over the list order: the encodings the loop tries, up to and
\* with the first one that decodes
TriedIn(order, bytes) ==
    IF \E k \in 1..Len(order) : decode(bytes, order[k]).ok
    THEN SubSeq(order, 1,
                CHOOSE k \in 1..Len(order) :
                    /\ decode(bytes, order[k]).ok
                    /\ \A j \in 1..(k - 1) : ~decode(bytes, order[j]).ok)
    ELSE order

\* lines 61-78 with tried the encodings the loop went through: the lines of
\* the last one when it decoded, else those of the decode with
\* errors="ignore" (lines 73-76)
DecodedWith(bytes, tried) ==
    IF decode(bytes, tried[Len(tried)]).ok
    THEN [kind |-> "returned",
          value |-> SplitLines(decode(bytes, tried[Len(tried)]).text),
          tried |-> tried, fallback |-> FALSE]
    ELSE [kind |-> "returned",
          value |-> SplitLines(Utf8From(bytes, 1, FALSE).text),
          tried |-> tried, fallback |-> TRUE]

\* lines 61-78 with utf-16 put before utf-8 in the list of line 61
DecodeBytesUtf16First(bytes) ==
    DecodedWith(bytes,
        TriedIn(<<"utf-16", "utf-8", "utf-8-sig", "utf-16-le", "utf-16-be">>, bytes))

\* lines 61-78
DecodeBytes(bytes) == DecodedWith(bytes, TriedIn(encodings, bytes))

MaxBytes == 4

\* 'A', LF, NUL, the two bytes of U+00E9 in utf-8, a byte that leads a high
\* surrogate in utf-16, and the two bytes of the utf-16 byte-order marks
ByteAlphabet == {65, 10, 0, 195, 169, 216, 254, 255}

ByteStrings == UNION {[1..n -> ByteAlphabet] : n \in 0..MaxBytes}

Strings == UNION {[1..n -> {"A", "LF", "CR"}] : n \in 0..MaxBytes}

InitDecode ==
    /\ \/ pc = "decode_bytes" /\ content_type = "bytes" /\ file_content \in ByteStrings
       \/ pc = "decode_str" /\ content_type = "str" /\ file_content \in Strings
    /\ fs = NoFiles
    /\ suspended = <<>>
    /\ cli = NoCli
    /\ lines = <<>>
    /\ platform_arg = "auto"
    /\ platform = "unset"
    /\ idx = 0
    /\ parsed_messages = <<>>
    /\ message_buffer = <<>>
    /\ current = NoCurrent
    /\ df = <<>>
    /\ outcome = Pending

\* lines 61-78: a call of _decode_file_content on bytes
DecodeBytesCall ==
    /\ pc = "decode_bytes"
    /\ outcome' = DecodeBytes(file_content)
    /\ pc' = "done_bytes"
    /\ UNCHANGED <<cli, fs, content_type, suspended, file_content, platform_arg, lines, platform, idx,
                   parsed_messages, message_buffer, current, df>>

\* lines 58-59: a call of _decode_file_content on a str
DecodeStrCall ==
    /\ pc = "decode_str"
    /\ outcome' = [kind |-> "returned", value |-> _decode_file_content(file_content),
                   tried |-> <<>>, fallback |-> FALSE]
    /\ pc' = "done_str"
    /\ UNCHANGED <<cli, fs, content_type, suspended, file_content, platform_arg, lines, platform, idx,
                   parsed_messages, message_buffer, current, df>>

NextDecode == DecodeBytesCall \/ DecodeStrCall

SpecDecode == InitDecode /\ [][NextDecode]_vars

---------------------------------------------------------------------------
(* C17                                                                     *)

\* the five encodings in the order of the claim
ClaimedOrder == <<"utf-8", "utf-8-sig", "utf-16", "utf-16-le", "utf-16-be">>

\* C17: on bytes _decode_file_content tries utf-8, utf-8-sig, utf-16,
\* utf-16-le, utf-16-be in this order, an encoding only when every earlier
\* one failed, and returns the lines of the first that decodes the whole
\* input; when all five fail it returns the lines of the utf-8 decode that
\* drops what it cannot decode, and does not raise; a str is split into
\* lines and no encoding is tried.
C17_FirstEncodingThatDecodes ==
    /\ pc = "done_bytes" =>
          /\ outcome.kind = "returned"
          /\ \A k \in 1..5 :
                ( /\ decode(file_content, ClaimedOrder[k]).ok
                  /\ \A j \in 1..(k - 1) : ~decode(file_content, ClaimedOrder[j]).ok ) =>
                    /\ outcome.value =
                          SplitLines(decode(file_content, ClaimedOrder[k]).text)
                    /\ outcome.tried = SubSeq(ClaimedOrder, 1, k)
                    /\ ~outcome.fallback
          /\ (\A k \in 1..5 : ~decode(file_content, ClaimedOrder[k]).ok) =>
                /\ outcome.value = SplitLines(Utf8From(file_content, 1, FALSE).text)
                /\ outcome.tried = ClaimedOrder
                /\ outcome.fallback
    /\ pc = "done_str" =>
          /\ outcome.value = SplitLines(file_content)
          /\ outcome.tried = <<>>

\* b"A\xff\n", which none of the five decodes, has given the line "A"
C17_LossyFallback ==
    /\ pc = "done_bytes"
    /\ file_content = <<65, 255, 10>>
    /\ outcome.fallback
    /\ outcome.value = <<<<"A">>>>

---------------------------------------------------------------------------
(* C18                                                                     *)

\* the text of a header line after its timestamp: after the " - " of
\* Format A, after the "]" of Format B and the spaces behind it
AfterTimestamp(plat, line) ==
    IF plat = "android"
    THEN Drop(line, Find(line, <<" ", "-", " ">>) + 3)
    ELSE LStrip(Drop(line, Find(line, <<"]">>) + 1), Whitespace)

\* the author and the message the text stands for: the name before the
\* first ": " and what follows it, or no author and the whole text
AuthorOf(text) ==
    IF Find(text, <<":", " ">>) = 0 THEN None
    ELSE SubSeq(text, 1, Find(text, <<":", " ">>) - 1)

MessageOf(text) ==
    IF Find(text, <<":", " ">>) = 0 THEN text
    ELSE Drop(text, Find(text, <<":", " ">>) + 2)

\* C18: for a transcript all of whose lines are header lines of the hinted
\* format, parse_chat returns one row per line, and in each row the author
\* is None exactly when the text after the timestamp has no "name: "
\* prefix, the message then being the whole text; with a prefix the author
\* is the name and the message what follows.  This includes the text
\* "a:b", whose colon is not followed by a space.
C18_AuthorIffPrefix ==
    ( /\ Done
      /\ platform_arg \in {"android", "ios"}
      /\ lines # <<>>
      /\ \A i \in 1..Len(lines) : i \in HeaderIdx ) =>
        /\ ReturnedFrame
        /\ Len(outcome.df) = Len(lines)
        /\ \A i \in 1..Len(lines) :
              /\ outcome.df[i].Author =
                    AuthorOf(AfterTimestamp(platform_arg, CleanLines[i]))
              /\ outcome.df[i].Message =
                    MessageOf(AfterTimestamp(platform_arg, CleanLines[i]))


---------------------------------------------------------------------------
(* parse_chat in a file system: a string argument may name a path          *)

MaxEnv == 2

\* 'chat': a string that is no transcript, and a possible name of a file
ChatPath == <<"c", "h", "a", "t">>

EnvTranscripts == UNION {[1..n -> {HdrA, Text, Blank}] : n \in 0..MaxEnv}

\* the first arguments: transcripts, and the string 'chat'
EnvContents == {Content(ls) : ls \in EnvTranscripts} \cup {ChatPath}

\* the file systems: nothing exists; 'chat' is a file that holds a
\* transcript; 'chat' is a directory; a file is named as a whole transcript
FileSystems ==
    { NoFiles,
      {[path |-> ChatPath, dir |-> FALSE, data |-> Content(<<HdrA, Text>>)]},
      {[path |-> ChatPath, dir |-> TRUE, data |-> <<>>]},
      {[path |-> Content(<<HdrA>>), dir |-> FALSE, data |-> Content(<<HdrA, HdrA>>)]} }

InitEnv == CalledIn(EnvContents, {"auto", "android"}, {"bytes", "str"}, FileSystems)

SpecEnv == InitEnv /\ [][Next]_vars

\* lines 323-348 as a fold over the lines from line i on
RECURSIVE Assemble(_, _, _, _, _, _)
Assemble(ls, plat, i, parsed, buffer, cur) ==
    IF i > Len(ls)
    THEN Returned(IF buffer # <<>> THEN Append(parsed, Flushed(cur, buffer)) ELSE parsed)
    ELSE IF _clean_line(ls[i]) = <<>>
    THEN Assemble(ls, plat, i + 1, parsed, buffer, cur)
    ELSE IF ~is_format_func(plat, _clean_line(ls[i]))
    THEN Assemble(ls, plat, i + 1, parsed, Append(buffer, _clean_line(ls[i])), cur)
    ELSE IF parse_line_func(plat, _clean_line(ls[i])).raised
    THEN Raised(parse_line_func(plat, _clean_line(ls[i])).exc)
    ELSE Assemble(ls, plat, i + 1,
                  IF buffer # <<>> THEN Append(parsed, Flushed(cur, buffer)) ELSE parsed,
                  <<parse_line_func(plat, _clean_line(ls[i])).message>>,
                  [date |-> parse_line_func(plat, _clean_line(ls[i])).date,
                   time |-> parse_line_func(plat, _clean_line(ls[i])).time,
                   author |-> parse_line_func(plat, _clean_line(ls[i])).author])

Failure(e) == [kind |-> "raised", exc |-> ExceptHandler(e)]

\* lines 350-382 for the records the loop has gathered
FrameOf(raw, plat) ==
    IF raw = <<>>
    THEN Failure(Exc("ChatParseError", <<"No messages found in chat export">>))
    ELSE IF DropNa(WithTs(raw, plat)) = <<>>
    THEN Failure(Exc("ChatParseError", <<"No valid timestamps found after parsing">>))
    ELSE [kind |-> "returned", df |-> Derived(DropNa(WithTs(raw, plat)))]

Gathered(a, plat) == IF a.raised THEN Failure(a.exc) ELSE FrameOf(a.value, plat)

OnPlatform(ls, det) ==
    IF det.raised THEN Failure(det.exc)
    ELSE Gathered(Assemble(ls, det.value, 1, <<>>, <<>>, NoCurrent), det.value)

\* what parse_chat gives for the lines ls under the hint, as one expression
OutcomeOf(ls, hint) ==
    OnPlatform(ls, IF hint = "auto" THEN detect_platform(ls) ELSE Returned(hint))

\* the same records, or the same kind of error
SameOutcome(o1, o2) ==
    /\ o1.kind = o2.kind
    /\ o1.kind = "returned" => o1.df = o2.df
    /\ o1.kind = "raised" => o1.exc.kind = o2.exc.kind

\* C19 (as the specification states it): the outcome of parse_chat is a
\* function of the content and the platform hint alone: whatever paths
\* exist in the file system, the call gives what the content's own lines
\* give under the hint.
C19_FunctionOfArguments ==
    Done => SameOutcome(outcome,
                        OutcomeOf(_decode_file_content(file_content), platform_arg))

\* C19 (as the code has it): with bytes, and with a string that names no
\* existing path, the outcome is what the content's own lines give under the
\* hint; with a string that names an existing file it is what that file's
\* lines give under the hint, and with one that names a directory it is a
\* ChatParseError.
C19_FunctionOfArgumentsAndNamedFile ==
    Done =>
        IF content_type = "str" /\ Exists(fs, file_content)
        THEN IF Entry(fs, file_content).dir
             THEN RaisedKind("ChatParseError")
             ELSE SameOutcome(outcome,
                      OutcomeOf(_decode_file_content(Entry(fs, file_content).data),
                                platform_arg))
        ELSE SameOutcome(outcome,
                 OutcomeOf(_decode_file_content(file_content), platform_arg))

\* the string 'chat' has been parsed where a file of that name holds a
\* transcript, and the records of that file have been returned
C19_NamedFileParsed ==
    /\ Done
    /\ content_type = "str"
    /\ file_content = ChatPath
    /\ Exists(fs, ChatPath)
    /\ ReturnedFrame
    /\ Len(outcome.df) = 1


---------------------------------------------------------------------------
(* Several invocations of parse_chat with their steps interleaved          *)

MaxConc == 2

ConcTranscripts == UNION {[1..n -> {HdrA, Text, Blank}] : n \in 0..MaxConc}

ConcContents == {Content(ls) : ls \in ConcTranscripts}

\* the arguments and locals of the running invocation (lines 282-284, 307-321)
Running ==
    [content_type |-> content_type, file_content |-> file_content,
     platform_arg |-> platform_arg, pc |-> pc, lines |-> lines,
     platform |-> platform, idx |-> idx, parsed_messages |-> parsed_messages,
     message_buffer |-> message_buffer, current |-> current, df |-> df,
     outcome |-> outcome]

\* the frame of an invocation that has been called and has not yet run
CallFrame(content, hint) ==
    [content_type |-> "bytes", file_content |-> content,
     platform_arg |-> hint, pc |-> "call", lines |-> <<>>,
     platform |-> "unset", idx |-> 0, parsed_messages |-> <<>>,
     message_buffer |-> <<>>, current |-> NoCurrent, df |-> <<>>,
     outcome |-> Pending]

\* two invocations have been called, the first of them is running (the
\* second one is given two lines and its platform)
InitConcurrent ==
    /\ cli = NoCli
    /\ fs = NoFiles
    /\ suspended \in {<<CallFrame(Content(ls), "android")>> : ls \in [1..2 -> {HdrA, Text}]}
    /\ content_type = "bytes"
    /\ file_content \in ConcContents
    /\ platform_arg \in {"auto", "android"}
    /\ pc = "call"
    /\ lines = <<>>
    /\ platform = "unset"
    /\ idx = 0
    /\ parsed_messages = <<>>
    /\ message_buffer = <<>>
    /\ current = NoCurrent
    /\ df = <<>>
    /\ outcome = Pending

\* line 317 were message_buffer one list of the module: the invocation that
\* resumes finds what the other one left
ResumedShared(own, left) == left

\* line 317: message_buffer is a local, the invocation that resumes finds
\* its own
Resumed(own, left) == own

\* the running invocation is suspended between two of its steps and the
\* k-th suspended one resumes: each finds its arguments and locals as it
\* left them
Switch ==
    \E k \in 1..Len(suspended) :
        /\ suspended' = [suspended EXCEPT ![k] = Running]
        /\ content_type' = suspended[k].content_type
        /\ file_content' = suspended[k].file_content
        /\ platform_arg' = suspended[k].platform_arg
        /\ pc' = suspended[k].pc
        /\ lines' = suspended[k].lines
        /\ platform' = suspended[k].platform
        /\ idx' = suspended[k].idx
        /\ parsed_messages' = suspended[k].parsed_messages
        /\ message_buffer' = Resumed(suspended[k].message_buffer, message_buffer)
        /\ current' = suspended[k].current
        /\ df' = suspended[k].df
        /\ outcome' = suspended[k].outcome
        /\ UNCHANGED <<cli, fs>>

NextConcurrent ==
    \/ Next
    \/ Switch

SpecConcurrent == InitConcurrent /\ [][NextConcurrent]_vars

\* what the invocation of frame f returns when it runs alone
Alone(f) == OutcomeOf(_decode_file_content(f.file_content), f.platform_arg)

\* C20: concurrent invocations do not interfere: however the steps of two
\* invocations are interleaved, each one that has finished has exactly the
\* outcome it has when it runs alone.
C20_AsWhenAlone ==
    /\ Done => outcome = Alone(Running)
    /\ \A k \in 1..Len(suspended) :
          suspended[k].pc = "done" => suspended[k].outcome = Alone(suspended[k])

\* one invocation has returned its records while another one, of another
\* content, was suspended in the loop with text in its buffer
C20_FinishedWhileOtherInLoop ==
    /\ Done
    /\ ReturnedFrame
    /\ suspended # <<>>
    /\ suspended[1].pc = "loop"
    /\ suspended[1].message_buffer # <<>>
    /\ suspended[1].parsed_messages # <<>>
    /\ suspended[1].file_content # file_content

---------------------------------------------------------------------------
(* The matchers and extractors called on single lines                      *)

MaxSpaces == 2

\* the space characters the headers of Format B are written with: U+0020,
\* U+00A0, U+202F, U+2009, U+200A, U+2002 to U+2008
SupportedSpaces ==
    {" ", "NBSP", "NNBSP", "THINSP", "HAIRSP", "ENSP", "EMSP", "EM3SP",
     "EM4SP", "EM6SP", "FIGSP", "PUNCSP"}

\* '[1/2/23,' sep1 '9:05:07' sep2 'PM] A: hi'
SpacedMeridiem(sep1, sep2) ==
    <<"[", "1", "/", "2", "/", "2", "3", ",">> \o sep1
        \o <<"9", ":", "0", "5", ":", "0", "7">> \o sep2
        \o <<"P", "M", "]", " ", "A", ":", " ", "h", "i">>

\* '[1/2/23,' sep1 '21:05] A: hi'
SpacedPlain(sep1) ==
    <<"[", "1", "/", "2", "/", "2", "3", ",">> \o sep1
        \o <<"2", "1", ":", "0", "5", "]", " ", "A", ":", " ", "h", "i">>

SpaceRuns == UNION {[1..n -> SupportedSpaces] : n \in 1..MaxSpaces}

SpacedHeaders ==
    {SpacedMeridiem(s1, s2) : s1 \in SpaceRuns, s2 \in {<<>>} \cup {<<c>> : c \in SupportedSpaces}}
        \cup {SpacedPlain(s1) : s1 \in SpaceRuns}

MaxRemainder == 4

\* '[1/2/23, 9:05:07 PM]'
IosStamp ==
    <<"[", "1", "/", "2", "/", "2", "3", ",", " ", "9", ":", "0", "5", ":",
      "0", "7", " ", "P", "M", "]">>

Remainders == UNION {[1..n -> {"A", "b", ":", " "}] : n \in 0..MaxRemainder}

\* the Format B headers '[1/2/23, 9:05:07 PM]' followed by a remainder
RemainderHeaders == {IosStamp \o r : r \in Remainders}

MaxStampTail == 4

\* '1/1/23, 9:05'
AndroidStamp == <<"1", "/", "1", "/", "2", "3", ",", " ", "9", ":", "0", "5">>

StampTails == UNION {[1..n -> {" ", "-", "x", ":"}] : n \in 0..MaxStampTail}

\* the lines '1/1/23, 9:05' followed by a tail, headers of Format A or not
StampedLines == {AndroidStamp \o t : t \in StampTails}

\* lines without a stamp: 'more', 'x, y - z', 'x - y', '', and a header of
\* each format for the extractor of the other
LooseLines ==
    {Text, Blank, HdrA, HdrIos,
     <<"x", ",", " ", "y", " ", "-", " ", "z">>,
     <<"x", " ", "-", " ", "y">>}

ExtractLines == SpacedHeaders \cup RemainderHeaders \cup StampedLines \cup LooseLines

InitExtract ==
    /\ lines \in {<<line>> : line \in ExtractLines}
    /\ platform_arg \in {"android", "ios"}
    /\ pc = "extract"
    /\ file_content = <<>>
    /\ fs = NoFiles
    /\ suspended = <<>>
    /\ cli = NoCli
    /\ content_type = "bytes"
    /\ platform = "unset"
    /\ idx = 0
    /\ parsed_messages = <<>>
    /\ message_buffer = <<>>
    /\ current = NoCurrent
    /\ df = <<>>
    /\ outcome = Pending

\* _parse_timestamp on the date and time of an extracted header
HeaderTs(h, plat) ==
    IF h.raised THEN None ELSE _parse_timestamp(h.date, h.time, plat)

\* what the matcher and the extractor of a platform give on one line, and
\* the timestamp resolved from the header
Extracted(plat, line) ==
    [kind |-> "returned",
     matches |-> is_format_func(plat, line),
     header |-> parse_line_func(plat, line),
     ts |-> HeaderTs(parse_line_func(plat, line), plat)]

\* a call of the matcher and of the extractor of platform_arg on lines[0]
ExtractCall ==
    /\ pc = "extract"
    /\ outcome' = Extracted(platform_arg, lines[1])
    /\ pc' = "done"
    /\ UNCHANGED <<cli, fs, content_type, suspended, file_content, platform_arg, lines, platform, idx,
                   parsed_messages, message_buffer, current, df>>

NextExtract == ExtractCall

SpecExtract == InitExtract /\ [][NextExtract]_vars

\* the line with every supported space replaced by the ordinary space
Ordinary(line) ==
    [i \in 1..Len(line) |-> IF line[i] \in SupportedSpaces THEN " " ELSE line[i]]

\* C21: Format B matching tolerates every supported space character: with
\* the spaces between date and time and between time and AM/PM replaced by
\* any supported spaces, _is_ios_format stays true and _parse_ios_line gives
\* the date, time, author and message, and the resolver the timestamp, of
\* the header written with ordinary spaces.
C21_SpacesTolerated ==
    (Done /\ platform_arg = "ios" /\ lines[1] \in SpacedHeaders) =>
        /\ outcome.matches
        /\ ~outcome.header.raised
        /\ outcome.ts # None
        /\ outcome.header = _parse_ios_line(Ordinary(lines[1]))
        /\ outcome.ts = Extracted("ios", Ordinary(lines[1])).ts
        /\ outcome.header.author = <<"A">>
        /\ outcome.header.message = <<"h", "i">>

\* the header with U+202F, U+2008 before the time and U+2006 before PM has
\* been extracted, its time read as '9:05:07 PM'
C21_NarrowSpacesExtracted ==
    /\ Done
    /\ platform_arg = "ios"
    /\ lines[1] = SpacedMeridiem(<<"NNBSP", "PUNCSP">>, <<"EM6SP">>)
    /\ outcome.matches
    /\ outcome.header.time = <<"9", ":", "0", "5", ":", "0", "7", " ", "P", "M">>

---------------------------------------------------------------------------
(* C22                                                                     *)

\* the text of the line after the closing bracket of its stamp
RemainderOf(line) == SubSeq(line, Len(IosStamp) + 1, Len(line))

Colons(text) == {i \in 1..Len(text) : text[i] = ":"}

\* the position of the first colon of the text
FirstColon(text) == CHOOSE i \in Colons(text) : \A j \in Colons(text) : i <= j

BeforeColon(text) == Strip(SubSeq(text, 1, FirstColon(text) - 1), Whitespace)

AfterColon(text) == Strip(SubSeq(text, FirstColon(text) + 1, Len(text)), Whitespace)

\* C22: _parse_ios_line splits the text after the closing bracket at its
\* first colon: a colon followed by text gives the text before it as author
\* and the text after it as message; a colon followed by nothing or by
\* whitespace only gives no author and the message "System message from "
\* with the text before the colon; no colon gives no author and the whole
\* remainder as message (each text without its surrounding whitespace).
C22_SplitAtFirstColon ==
    (Done /\ platform_arg = "ios" /\ lines[1] \in RemainderHeaders) =>
        /\ ~outcome.header.raised
        /\ IF Colons(RemainderOf(lines[1])) = {}
           THEN /\ outcome.header.author = None
                /\ outcome.header.message = Strip(RemainderOf(lines[1]), Whitespace)
           ELSE IF AfterColon(RemainderOf(lines[1])) = <<>>
           THEN /\ outcome.header.author = None
                /\ outcome.header.message =
                      SystemMessageFrom \o BeforeColon(RemainderOf(lines[1]))
           ELSE /\ outcome.header.author = BeforeColon(RemainderOf(lines[1]))
                /\ outcome.header.message = AfterColon(RemainderOf(lines[1]))

\* '[1/2/23, 9:05:07 PM] A: ' has been extracted as the system message
\* 'System message from A' without author
C22_SystemMessageSynthesized ==
    /\ Done
    /\ platform_arg = "ios"
    /\ lines[1] = IosStamp \o <<" ", "A", ":", " ">>
    /\ outcome.header.author = None
    /\ outcome.header.message = SystemMessageFrom \o <<"A">>

---------------------------------------------------------------------------
(* C23, C24                                                                *)

\* C23: extraction never fails on a line the matcher accepted: on every
\* line on which the matcher of a format is true, the extractor of that
\* format returns a header.
C23_ExtractionNeverFails ==
    (Done /\ outcome.matches) =>
        ~outcome.header.raised

\* C24: the extractor of each format raises a ChatParseError on every line
\* its matcher rejects.
C24_RejectedLinesRaise ==
    (Done /\ ~outcome.matches) =>
        /\ outcome.header.raised
        /\ outcome.header.exc.kind = "ChatParseError"

---------------------------------------------------------------------------
(* C25                                                                     *)

\* the loop has read no header line yet
AwaitingFirstHeader == pc = "loop" /\ \A i \in HeaderIdx : i > idx

\* the non-empty lines among the first n, cleaned
TextUpTo(n) == SelectSeq(SubSeq(CleanLines, 1, n), LAMBDA l : l # <<>>)

\* the number of lines before the first header line
BeforeFirstHeader ==
    IF HeaderIdx = {} THEN Len(lines) ELSE NthOf(HeaderIdx, 1) - 1

\* C25 (as the specification states it): while no header line has been
\* read, every non-matching line is discarded: the buffer stays empty, no
\* raw record is assembled from such lines, and their text appears in no
\* record's message.
C25_DiscardedBeforeFirstHeader ==
    /\ AwaitingFirstHeader => (message_buffer = <<>> /\ parsed_messages = <<>>)
    /\ pc = "frame" => \A n \in 1..Len(parsed_messages) : parsed_messages[n].Date # None

\* C25 (as the code has it): while no header line has been read, every
\* non-empty non-matching line is appended to the buffer and no record is
\* assembled yet; at the first header line, or at the end of input, the
\* buffered text becomes one raw record without date, time and author; that
\* record never resolves a timestamp, so no returned row is made of it.
C25_BufferedThenDropped ==
    /\ AwaitingFirstHeader =>
          (parsed_messages = <<>> /\ message_buffer = TextUpTo(idx))
    /\ pc = "frame" =>
          /\ TextUpTo(BeforeFirstHeader) # <<>> =>
                parsed_messages[1] = Flushed(NoCurrent, TextUpTo(BeforeFirstHeader))
          /\ Len(parsed_messages) - Len(OfHeaders(parsed_messages)) =
                (IF TextUpTo(BeforeFirstHeader) # <<>> THEN 1 ELSE 0)
    /\ (Done /\ ReturnedFrame) =>
          /\ \A n \in 1..Len(outcome.df) : outcome.df[n].Date # None
          /\ Len(outcome.df) <= Len(OfHeaders(parsed_messages))

\* two text lines before a header line were assembled into a record
\* without date, and the frame returned holds the header's record alone
C25_TextBeforeHeaderDropped ==
    /\ Done
    /\ ReturnedFrame
    /\ lines = <<Text, Text, HdrA>>
    /\ Len(parsed_messages) = 2
    /\ parsed_messages[1].Date = None
    /\ parsed_messages[1].Message = Text \o <<" ">> \o Text
    /\ Len(outcome.df) = 1
    /\ outcome.df[1].Message = <<"h", "i">>

---------------------------------------------------------------------------
(* Transcripts with empty, mark-only and whitespace-only lines             *)

MaxBlank == 3

\* ' ': a line of one space
SpaceLine == <<" ">>

\* a line of one tab
TabLine == <<"TAB">>

\* a line of one left-to-right mark
MarkLine == <<"LRM">>

BlankCorpus == {HdrA, Text, Blank, SpaceLine, TabLine, MarkLine}

BlankTranscripts == UNION {[1..n -> BlankCorpus] : n \in 0..MaxBlank}

InitBlank == Called({Content(ls) : ls \in BlankTranscripts}, {"auto", "android"})

SpecBlank == InitBlank /\ [][Next]_vars

\* a line made of nothing but marks, byte-order marks, line ends, spaces
\* and tabs
IsBlankLine(line) ==
    \A i \in 1..Len(line) : line[i] \in {"LRM", "RLM", "BOM", "CR", "LF", " ", "TAB"}

\* C26: empty and whitespace-only lines
\* are discarded in every assembler state: the transcript gives the records
\* and messages it gives with every such line removed.
C26_BlankLinesDiscarded ==
    Done => SameOutcome(outcome,
                OutcomeOf(SelectSeq(lines, LAMBDA l : ~IsBlankLine(l)), platform_arg))

---------------------------------------------------------------------------
(* Transcripts with indented header lines, detected and assembled          *)

MaxIndented == 3

IndentedCorpus == {HdrA, HdrIndented, Text, Blank}

IndentedTranscripts == UNION {[1..n -> IndentedCorpus] : n \in 0..MaxIndented}

InitIndented ==
    Called({Content(ls) : ls \in IndentedTranscripts}, {"auto", "android"})

SpecIndented == InitIndented /\ [][Next]_vars

\* the lines detect_platform counted for the platform it returned
CountedIdx ==
    {i \in 1..Min(SampleLimit, Len(lines)) :
        Normalized(lines[i]) # <<>> /\ is_format_func(platform, Normalized(lines[i]))}

\* C27: detection and assembly agree on what a header is: every line that
\* detect_platform counted for the platform it returned is a header line
\* for the assembler, and the assembler makes one record per counted line.
C27_CountedLinesAreHeaders ==
    (platform_arg = "auto" /\ platform # "unset") =>
        /\ CountedIdx \subseteq HeaderIdx
        /\ pc = "frame" => Len(OfHeaders(parsed_messages)) >= Cardinality(CountedIdx)

---------------------------------------------------------------------------
(* C28                                                                     *)

\* C28: the records parse_chat returns are in the order of their header
\* lines: the n-th row is the whole record (date, time, author, message) of
\* the n-th header line whose date and time resolve, so the rows are the
\* assembled records without the unresolvable ones, none moved, given twice
\* or merged with another.
C28_RowsInHeaderOrder ==
    (Done /\ ReturnedFrame) =>
        /\ Len(outcome.df) = Cardinality(ResolvableIdx)
        /\ \A n \in 1..Len(outcome.df) :
              RawOf(outcome.df[n]) = RecordOf(NthOf(ResolvableIdx, n))

\* of three header lines the second, which does not resolve, is missing
\* from the rows, and the other two are in their order
C28_MiddleRecordRemoved ==
    /\ Done
    /\ ReturnedFrame
    /\ platform_arg = "android"
    /\ lines = <<HdrB, HdrBadDate, HdrA>>
    /\ Len(parsed_messages) = 3
    /\ Len(outcome.df) = 2
    /\ outcome.df[1].Message = <<"y", "o">>
    /\ outcome.df[2].Message = <<"h", "i">>

---------------------------------------------------------------------------
(* ChatAnalyzer: the constructor and the metrics that use ts.diff().  A    *)
(* frame is a sequence of rows [ts, Author]; ts is counted in minutes.     *)
(* sort_values(by="ts") is called with its default kind, "quicksort",     *)
(* which does not promise the order of rows of equal ts: every order that *)
(* ascends by ts is a possible result.                                     *)

MaxRows == 3

Minutes == {0, 1}

Frames == UNION {[1..n -> [ts : Minutes, Author : {"A", "B"}]] : n \in 0..MaxRows}

\* the frame handed to ChatAnalyzer(df)
InitAnalyzer ==
    /\ df \in Frames
    /\ pc = "new"
    /\ outcome = Pending
    /\ fs = NoFiles
    /\ suspended = <<>>
    /\ cli = NoCli
    /\ content_type = "bytes"
    /\ file_content = <<>>
    /\ platform_arg = "auto"
    /\ lines = <<>>
    /\ platform = "unset"
    /\ idx = 0
    /\ parsed_messages = <<>>
    /\ message_buffer = <<>>
    /\ current = NoCurrent

\* the orders of the rows, as maps from new to old position
Orders(rows) ==
    {p \in [1..Len(rows) -> 1..Len(rows)] :
        \A i \in 1..Len(rows) : \A j \in 1..Len(rows) : i # j => p[i] # p[j]}

\* analyzer.py:41, df.sort_values(by="ts"): the orders it may give
sort_values(rows) ==
    {p \in Orders(rows) :
        \A i \in 1..Len(rows) : \A j \in 1..Len(rows) :
            i < j => rows[p[i]].ts <= rows[p[j]].ts}

\* reset_index(drop=True) and copy(): the rows in the order p, each with the
\* position it had in the input
Reindexed(rows, p) ==
    [i \in 1..Len(rows) |->
        [ts |-> rows[p[i]].ts, Author |-> rows[p[i]].Author, row |-> p[i]]]

\* analyzer.py:29-44
ChatAnalyzer ==
    /\ pc = "new"
    /\ IF df = <<>>
       THEN /\ pc' = "done"
            /\ outcome' = [kind |-> "raised",
                           exc |-> Exc("ValueError",
                                       <<"A non-empty pandas DataFrame is required.">>)]
       ELSE /\ pc' = "constructed"
            /\ \E p \in sort_values(df) :
                  outcome' = [kind |-> "constructed", chat_data |-> Reindexed(df, p),
                              time_diff |-> <<>>]
    /\ UNCHANGED <<cli, fs, content_type, suspended, file_content, platform_arg, lines, platform, idx,
                   parsed_messages, message_buffer, current, df>>

\* chat_data["ts"].diff(): nothing for the first row
Diff(rows) ==
    [i \in 1..Len(rows) |-> IF i = 1 THEN None ELSE <<rows[i].ts - rows[i - 1].ts>>]

\* analyzer.py:158-166
get_response_times ==
    /\ pc = "constructed"
    /\ pc' = "responses"
    /\ outcome' = [outcome EXCEPT !.time_diff = Diff(outcome.chat_data)]
    /\ UNCHANGED <<cli, fs, content_type, suspended, file_content, platform_arg, lines, platform, idx,
                   parsed_messages, message_buffer, current, df>>

\* analyzer.py:168-172
get_conversation_starters ==
    /\ pc = "constructed"
    /\ pc' = "starters"
    /\ outcome' = [outcome EXCEPT !.time_diff = Diff(outcome.chat_data)]
    /\ UNCHANGED <<cli, fs, content_type, suspended, file_content, platform_arg, lines, platform, idx,
                   parsed_messages, message_buffer, current, df>>

NextAnalyzer ==
    \/ ChatAnalyzer
    \/ get_response_times
    \/ get_conversation_starters

SpecAnalyzer == InitAnalyzer /\ [][NextAnalyzer]_vars

Constructed == pc \in {"constructed", "responses", "starters"}

\* C29: after ChatAnalyzer is constructed from a non-empty frame, chat_data
\* ascends by ts whatever the order of the input rows, rows of equal ts are
\* in their input order, and no time difference the metrics see is negative.
C29_SortedKeepingTies ==
    Constructed =>
        /\ \A i \in 1..Len(outcome.chat_data) : \A j \in 1..Len(outcome.chat_data) :
              i < j =>
                 /\ outcome.chat_data[i].ts <= outcome.chat_data[j].ts
                 /\ outcome.chat_data[i].ts = outcome.chat_data[j].ts =>
                       outcome.chat_data[i].row < outcome.chat_data[j].row
        /\ \A i \in 2..Len(outcome.time_diff) : outcome.time_diff[i][1] >= 0

---------------------------------------------------------------------------
(* cli.main: the command line program over a file argument. It reads the  *)
(* file, has parse_chat parse it, builds a ChatAnalyzer, prints the       *)
(* report sections and returns the exit code (no --demo, --stdin or       *)
(* --export is given). parse_chat runs as the state machine above.        *)

MaxCli == 2

\* the transcripts the file may hold
CliTranscripts == UNION {[1..n -> {HdrA, HdrMedia, Text, Blank}] : n \in 0..MaxCli}

\* the file systems: 'chat' is missing, is a directory, or holds a transcript
CliFileSystems ==
    {NoFiles, {[path |-> ChatPath, dir |-> TRUE, data |-> <<>>]}}
        \cup {{[path |-> ChatPath, dir |-> FALSE, data |-> Content(ls)]} :
                ls \in CliTranscripts}

\* cli.py:400-407: main after parse_args, with args.file = 'chat'
InitCli ==
    /\ fs \in CliFileSystems
    /\ suspended = <<>>
    /\ \E p \in {"auto", "android"}, m \in BOOLEAN, q \in BOOLEAN :
          cli = [phase |-> "main", file |-> ChatPath, platform |-> p,
                 include_media |-> m, quiet |-> q, analysed |-> FALSE,
                 interrupted |-> FALSE, printed |-> <<>>, code |-> -1]
    /\ content_type = "bytes"
    /\ file_content = <<>>
    /\ platform_arg = "unset"
    /\ pc = "main"
    /\ lines = <<>>
    /\ platform = "unset"
    /\ idx = 0
    /\ parsed_messages = <<>>
    /\ message_buffer = <<>>
    /\ current = NoCurrent
    /\ df = <<>>
    /\ outcome = Pending

\* the except clauses of cli.py:440-453
ExitCode(kind) ==
    IF kind = "KeyboardInterrupt" THEN 130
    ELSE IF kind \in {"FileNotFoundError", "PermissionError"} THEN 1
    ELSE IF kind \in {"ChatParseError", "PlatformDetectionError"} THEN 1
    ELSE 1

\* main returns `code`
Exit(code) ==
    /\ cli' = [cli EXCEPT !.phase = "exit", !.code = code]
    /\ pc' = "exit"

\* main returns `code` having printed the lines `out`
ExitAfter(out, code) ==
    /\ cli' = [cli EXCEPT !.phase = "exit", !.code = code, !.printed = out]
    /\ pc' = "exit"

\* cli.py:37-67 and 414-423: the file is read; a missing path, a path that
\* is no file and an empty file end main
read_input_file ==
    /\ pc = "main"
    /\ IF ~Exists(fs, cli.file)
       THEN Exit(ExitCode("FileNotFoundError")) /\ UNCHANGED <<file_content, platform_arg>>
       ELSE IF Entry(fs, cli.file).dir
       THEN Exit(ExitCode("ValueError")) /\ UNCHANGED <<file_content, platform_arg>>
       ELSE IF Entry(fs, cli.file).data = <<>>
       THEN Exit(1) /\ UNCHANGED <<file_content, platform_arg>>
       ELSE /\ file_content' = Entry(fs, cli.file).data
            /\ platform_arg' = cli.platform
            /\ cli' = [cli EXCEPT !.phase = "parsing"]
            /\ pc' = "call"
    /\ UNCHANGED <<fs, content_type, suspended, lines, platform, idx,
                   parsed_messages, message_buffer, current, df, outcome>>

\* cli.py:134-135: df[~df["is_media"]]
WithoutMedia(rows) == SelectSeq(rows, LAMBDA r : ~r.is_media)

\* cli.py:128-146 after parse_chat has finished, and analyzer.py:36-37: an
\* error of parse_chat is raised again, the media rows are filtered out
\* unless --include-media is given, and ChatAnalyzer rejects an empty frame
analyze_chat ==
    /\ pc = "done"
    /\ cli.phase = "parsing"
    /\ IF outcome.kind = "raised"
       THEN Exit(ExitCode(outcome.exc.kind)) /\ UNCHANGED df
       ELSE IF (IF cli.include_media THEN outcome.df ELSE WithoutMedia(outcome.df)) = <<>>
       THEN Exit(ExitCode("ValueError")) /\ UNCHANGED df
       ELSE /\ df' = IF cli.include_media THEN outcome.df ELSE WithoutMedia(outcome.df)
            /\ cli' = [cli EXCEPT !.phase = "analysed", !.analysed = TRUE]
            /\ pc' = "analysed"
    /\ UNCHANGED <<fs, content_type, suspended, file_content, platform_arg, lines, platform,
                   idx, parsed_messages, message_buffer, current, outcome>>

\* analyzer.py:99-108: the keys of the dictionary get_basic_stats returns
get_basic_stats ==
    {"total_messages", "total_participants", "days_active", "avg_words_per_message",
     "date_range"}

\* analyzer.py:139-146: the columns of the frame get_participant_stats returns
get_participant_stats == {"messages", "words", "media_sent", "avg_words"}

\* analyzer.py:29-243: the public methods of ChatAnalyzer
Methods ==
    {"get_sentiment_samples", "get_basic_stats", "get_date_activity",
     "create_hourly_activity_chart", "create_daily_activity_chart",
     "get_participant_stats", "create_participant_activity_chart",
     "get_response_times", "get_conversation_starters",
     "create_conversation_starters_chart", "create_sentiment_over_time_chart",
     "get_emoji_analysis", "get_word_analysis", "get_all_insights",
     "export_analysis_report"}

\* cli.py:149-278: the report sections in the order main prints them; each
\* reads the names `reads`, in this order, of what the analyzer provides
\* (`has`), and the last three catch their own exceptions
Sections(basic) ==
    << [name |-> "basic", guarded |-> FALSE, has |-> basic,
        reads |-> <<"total_messages", "total_participants", "days_active", "date_range",
                    "total_words", "total_characters", "media_messages", "text_messages",
                    "avg_words_per_message", "avg_chars_per_message">>],
       [name |-> "participants", guarded |-> FALSE, has |-> get_participant_stats,
        reads |-> <<"message_count", "total_words", "avg_words_per_message",
                    "activity_days">>],
       [name |-> "activity", guarded |-> FALSE, has |-> Methods,
        reads |-> <<"get_hourly_activity", "get_daily_activity", "get_date_activity">>],
       [name |-> "response", guarded |-> TRUE, has |-> Methods,
        reads |-> <<"get_response_times">>],
       [name |-> "starters", guarded |-> TRUE, has |-> Methods,
        reads |-> <<"get_conversation_starters">>],
       [name |-> "emoji", guarded |-> TRUE, has |-> Methods,
        reads |-> <<"get_emoji_analysis">>] >>

\* the names of the sections
SectionNames == <<"basic", "participants", "activity", "response", "starters", "emoji">>

\* the index of the first name a section reads that is not provided, or 0
FirstMissing(s) ==
    IF \A i \in 1..Len(s.reads) : s.reads[i] \in s.has
    THEN 0
    ELSE CHOOSE i \in 1..Len(s.reads) :
            /\ s.reads[i] \notin s.has
            /\ \A j \in 1..(i - 1) : s.reads[j] \in s.has

\* one print function: a section that finds everything prints its name; a
\* guarded section that does not logs a warning; another one raises KeyError
\* or AttributeError
Printed(s) ==
    IF FirstMissing(s) = 0 THEN [raised |-> FALSE, out |-> <<s.name>>]
    ELSE IF s.guarded THEN [raised |-> FALSE, out |-> <<>>]
    ELSE [raised |-> TRUE, out |-> <<>>,
          exc |-> Exc(IF s.has = Methods THEN "AttributeError" ELSE "KeyError",
                      s.reads[FirstMissing(s)])]

\* cli.py:429-435: the sections from the n-th on, after `out` was printed,
\* up to the first one that raises
RECURSIVE PrintFrom(_, _, _)
PrintFrom(secs, n, out) ==
    IF n > Len(secs) THEN [raised |-> FALSE, out |-> out]
    ELSE IF Printed(secs[n]).raised
         THEN [raised |-> TRUE, out |-> out, exc |-> Printed(secs[n]).exc]
         ELSE PrintFrom(secs, n + 1, out \o Printed(secs[n]).out)

\* cli.py:428-438: the report, unless --quiet is given, and the exit code 0;
\* an exception of a print function reaches the clause of line 448
Report ==
    /\ pc = "analysed"
    /\ IF cli.quiet
       THEN ExitAfter(<<>>, 0)
       ELSE IF PrintFrom(Sections(get_basic_stats), 1, <<>>).raised
       THEN ExitAfter(PrintFrom(Sections(get_basic_stats), 1, <<>>).out,
                      ExitCode(PrintFrom(Sections(get_basic_stats), 1, <<>>).exc.kind))
       ELSE ExitAfter(PrintFrom(Sections(get_basic_stats), 1, <<>>).out, 0)
    /\ UNCHANGED <<fs, content_type, suspended, file_content, platform_arg, lines, platform,
                   idx, parsed_messages, message_buffer, current, df, outcome>>

\* cli.py:440-442: the user interrupts main at any point of the try block
KeyboardInterrupt ==
    /\ cli.phase \in {"main", "parsing", "analysed"}
    /\ cli' = [cli EXCEPT !.phase = "exit", !.code = ExitCode("KeyboardInterrupt"),
                          !.interrupted = TRUE]
    /\ pc' = "exit"
    /\ UNCHANGED <<fs, content_type, suspended, file_content, platform_arg, lines, platform,
                   idx, parsed_messages, message_buffer, current, df, outcome>>

NextCli ==
    \/ read_input_file
    \/ Next
    \/ analyze_chat
    \/ Report
    \/ KeyboardInterrupt

SpecCli == InitCli /\ [][NextCli]_vars

\* main has returned
Exited == cli.phase = "exit"

\* C30: main returns 0 whenever the input was read, parsed and analysed
\* (and main was not interrupted), having printed every report section
\* unless --quiet is given; otherwise it returns 1, or 130 when interrupted
C30_ExitCodes ==
    Exited =>
        /\ cli.interrupted => cli.code = 130
        /\ (cli.analysed /\ ~cli.interrupted) =>
              /\ cli.code = 0
              /\ ~cli.quiet => cli.printed = SectionNames
        /\ (~cli.analysed /\ ~cli.interrupted) => cli.code = 1

====
